---- MODULE Spec2Model ----
(***************************************************************************)
(* Client-side data-fetching, caching and authentication layer of the      *)
(* INSBU statistics portal front end:                                      *)
(*   - services/api.js          axios client, interceptors, retry, cache   *)
(*   - contexts/AuthContext.jsx login / register / logout / refreshToken,  *)
(*                              periodic refresh timer, 401 interceptor    *)
(*   - services/authService.js  authentication calls                       *)
(*   - utils/helpers.js         storage, handleApiError                    *)
(*   - components/LoadingScreen.jsx   useApi / usePaginatedApi hooks       *)
(*   - services/newsService.js, authService.js, documentService,           *)
(*     adminService             validation, requests, cache clearing       *)
(*   - components/ProtectedRoute.jsx, App.jsx   route guards               *)
(*   - pages/News               delete confirmation and refetch            *)
(*                                                                         *)
(* The specifications share the variables:                                 *)
(*   SpecAuth     the authentication context and the interceptor chain     *)
(*   SpecAuthFair SpecAuth with the requests of initializeAuth answered    *)
(*   SpecHttp     requestWithRetry, getWithCache, postOptimistic,          *)
(*                uploadFile                                               *)
(*   SpecPage     the News page: usePaginatedApi driving getNewsList       *)
(*   SpecService  the feature services and the storage cache of api.js     *)
(*   SpecRoute    ProtectedRoute as the routes of AppContent mount it      *)
(*   SpecQuery    the query state of usePaginatedApi and its handlers      *)
(*   SpecOptimistic  useOptimisticUpdate                                   *)
(***************************************************************************)
EXTENDS Integers, Sequences, FiniteSets, TLC

VARIABLES
    lsToken,        \* localStorage[STORAGE_KEYS.AUTH_TOKEN]; NoToken when absent
    authHeader,     \* api.defaults.headers.common['Authorization']; NoToken when absent
    user,           \* AuthProvider state `user`; NoUser is null
    loading,        \* AuthProvider state `loading`
    refreshing,     \* AuthProvider state `refreshing`
    redirected,     \* window.location.href was set to '/login'
    cbIsAuth,       \* isAuthenticated as captured by the closures of the last render
    cbRefreshing,   \* refreshing as captured by the closures of the last render
    timerArmed,     \* the setInterval of the auto-refresh effect is active
    timerElapsed,   \* milliseconds since the interval was armed or last fired
    procs,          \* the asynchronous operations, one record per owner
    rq,             \* one call of getWithCache / postOptimistic / uploadFile
    cache,          \* localStorage entries 'api_cache_...'
    now,            \* Date.now(), in milliseconds
    hook,           \* state of one usePaginatedApi instance
    calls,          \* what the last request of the hook passed and sent
    svc,            \* the last call of a feature service and what it did
    route,          \* what a ProtectedRoute element rendered last, and its props
    opt             \* state of one useOptimisticUpdate instance

vars == <<lsToken, authHeader, user, loading, refreshing, redirected, cbIsAuth,
          cbRefreshing, timerArmed, timerElapsed, procs, rq, cache, now, hook, calls,
          svc, route, opt>>

authVars == <<lsToken, authHeader, user, loading, refreshing, redirected, cbIsAuth,
              cbRefreshing, timerArmed, timerElapsed, procs>>
httpVars == <<rq, cache, now>>
pageVars == <<hook, calls>>
serviceVars == <<svc>>
routeVars == <<route>>
optimisticVars == <<opt>>

-----------------------------------------------------------------------------
(* Bounds of the model *)

MaxToken == 2
MaxUser == 2

(* Program constants *)

OK == 200
NO_CONTENT == 204
UNAUTHORIZED == 401
FORBIDDEN == 403
NOT_FOUND == 404
UNPROCESSABLE_ENTITY == 422
INTERNAL_SERVER_ERROR == 500
retryAttempts == 3
retryDelay == 1000
RefreshIntervalMs == 15 * 60 * 1000

NoToken == 0
NoUser == 0
Tokens == 1..MaxToken
Users == 1..MaxUser

-----------------------------------------------------------------------------
(* Errors.  A JavaScript error object is a record of the properties the     *)
(* code reads: response (the HTTP status, 0 when the property is absent),   *)
(* request and config (present or not), code, and the status / type         *)
(* properties of the object handleApiError builds (status -1 when absent).  *)

NoErr == [response |-> 0, request |-> FALSE, config |-> FALSE, code |-> "none",
          status |-> -1, type |-> "none"]

\* the error axios rejects with for a transport outcome
AxiosError(outcome) ==
    CASE outcome = "e401" -> [NoErr EXCEPT !.response = UNAUTHORIZED, !.request = TRUE,
                                           !.config = TRUE, !.code = "ERR_BAD_REQUEST"]
      [] outcome = "e403" -> [NoErr EXCEPT !.response = FORBIDDEN, !.request = TRUE,
                                           !.config = TRUE, !.code = "ERR_BAD_REQUEST"]
      [] outcome = "e404" -> [NoErr EXCEPT !.response = NOT_FOUND, !.request = TRUE,
                                           !.config = TRUE, !.code = "ERR_BAD_REQUEST"]
      [] outcome = "e422" -> [NoErr EXCEPT !.response = UNPROCESSABLE_ENTITY, !.request = TRUE,
                                           !.config = TRUE, !.code = "ERR_BAD_REQUEST"]
      [] outcome = "e500" -> [NoErr EXCEPT !.response = INTERNAL_SERVER_ERROR, !.request = TRUE,
                                           !.config = TRUE, !.code = "ERR_BAD_RESPONSE"]
      [] outcome = "network" -> [NoErr EXCEPT !.request = TRUE, !.config = TRUE,
                                              !.code = "ERR_NETWORK"]
      [] outcome = "timeout" -> [NoErr EXCEPT !.request = TRUE, !.config = TRUE,
                                              !.code = "ECONNABORTED"]

\* axios resolves for a 2xx status (validateStatus) and rejects otherwise
IsSuccess(outcome) == outcome \in {"ok", "s204"}

\* the HTTP status of a response; 0 when there is none
StatusOf(outcome) ==
    CASE outcome = "ok" -> OK
      [] outcome = "s204" -> NO_CONTENT
      [] OTHER -> AxiosError(outcome).response

\* a TypeError thrown inside a handler
TypeErr == [NoErr EXCEPT !.type = "TypeError"]

\* the object literal { response: { status, data } } the services throw
ThrownResponse(status) == [NoErr EXCEPT !.response = status]

handleApiError(error) ==
    IF error.response # 0
    THEN [NoErr EXCEPT !.status = error.response, !.type = "api_error"]
    ELSE IF error.request
         THEN [NoErr EXCEPT !.status = 0, !.type = "network_error"]
         ELSE [NoErr EXCEPT !.status = 0, !.type = "unknown_error"]

-----------------------------------------------------------------------------
(* The asynchronous operations.  Every owner runs one operation at a time   *)
(* and has at most one HTTP request in flight:                              *)
(*   "auth"  initializeAuth, login, register or logout called by the UI     *)
(*   "timer" refreshToken called by the setInterval callback                *)
(*   "icpt"  refreshToken called by the 401 interceptor of AuthContext      *)
(*   "api"   a request a component makes through the api client             *)

Owners == {"auth", "timer", "icpt", "api"}

NoData == [token |-> NoToken, user |-> NoUser]

Idle == [op |-> "none", pc |-> "idle", cont |-> "none",
         retry |-> FALSE,      \* originalRequest._retry of the request in flight
         hold |-> FALSE,       \* the response waits for refreshToken in the interceptor
         held |-> "none",      \* "icpt": the owner whose response is held
         bearer |-> NoToken,   \* Authorization the request in flight carries
         sentTok |-> NoToken,  \* the stored token when the request was sent
         cfgAuth |-> NoToken,  \* Authorization set on the request config itself
         err |-> NoErr, res |-> "none", data |-> NoData,
         got401 |-> FALSE,     \* a 401 arrived while the user was authenticated
         refreshTried |-> FALSE]

\* res, data and err of an idle owner tell what its operation returned in the
\* step that has just been taken; the next step forgets them
\* and so are bearer, sentTok and cfgAuth of the request sent in that step
Forget(ps) ==
    [o \in Owners |-> IF ps[o].pc = "idle"
                      THEN Idle
                      ELSE [ps[o] EXCEPT !.bearer = NoToken, !.sentTok = NoToken,
                                         !.cfgAuth = NoToken, !.res = "none"]]

Store == [lsToken |-> lsToken, authHeader |-> authHeader, user |-> user,
          loading |-> loading, refreshing |-> refreshing, redirected |-> redirected,
          cbIsAuth |-> cbIsAuth, cbRefreshing |-> cbRefreshing, procs |-> Forget(procs)]

ApplyStore(S) ==
    /\ lsToken' = S.lsToken
    /\ authHeader' = S.authHeader
    /\ user' = S.user
    /\ loading' = S.loading
    /\ refreshing' = S.refreshing
    /\ redirected' = S.redirected
    /\ procs' = S.procs
    /\ UNCHANGED <<cbIsAuth, cbRefreshing>>

-----------------------------------------------------------------------------
(* api.js request interceptor: the stored token, when there is one,          *)
(* overrides the Authorization of the request config and of the defaults.    *)

RequestBearer(S, cfgAuth) ==
    IF S.lsToken # NoToken
    THEN S.lsToken
    ELSE IF cfgAuth # NoToken THEN cfgAuth ELSE S.authHeader

\* api(config) with a fresh config: the request leaves with the bearer the
\* request interceptor gives it
SendRequest(S, o, op, pc, cont) ==
    [S EXCEPT !.procs[o] = [@ EXCEPT !.op = op, !.pc = pc, !.cont = cont,
                                     !.retry = FALSE, !.hold = FALSE,
                                     !.cfgAuth = NoToken,
                                     !.bearer = RequestBearer(S, NoToken),
                                     !.sentTok = S.lsToken]]

\* AuthContext interceptor, refreshed = true: the original request is sent
\* again, its config carrying _retry and the new Authorization
Resend(S, o) ==
    [S EXCEPT !.procs[o] = [@ EXCEPT !.hold = FALSE,
                                     !.cfgAuth = S.lsToken,
                                     !.bearer = RequestBearer(S, S.lsToken),
                                     !.sentTok = S.lsToken]]

\* the operation of owner o has returned
Finish(S, o, res) ==
    [S EXCEPT !.procs[o] = [@ EXCEPT !.op = "none", !.pc = "idle", !.cont = "none",
                                     !.retry = FALSE, !.hold = FALSE, !.held = "none",
                                     !.bearer = NoToken, !.sentTok = NoToken,
                                     !.cfgAuth = NoToken, !.res = res]]

-----------------------------------------------------------------------------
(* api.js response interceptor, error handler *)

ApiResponseError(S, o, error) ==
    LET hit == error.response = UNAUTHORIZED /\ ~S.procs[o].retry
        S1 == IF hit
              THEN [S EXCEPT !.procs[o].retry = TRUE,
                             !.lsToken = NoToken,
                             !.authHeader = NoToken,
                             !.redirected = TRUE]
              ELSE S
    IN [store |-> S1, error |-> handleApiError(error)]

-----------------------------------------------------------------------------
(* AuthContext.jsx: the state updates of the handlers *)

\* a faulty variant: the token of the response is not written to localStorage
loginSuccessNoStore(S, data) ==
    [S EXCEPT !.authHeader = data.token, !.user = data.user, !.loading = FALSE]

\* login, lines 92-103
loginSuccess(S, data) ==
    [S EXCEPT !.lsToken = data.token, !.authHeader = data.token,
              !.user = data.user, !.loading = FALSE]

\* register, lines 130-135 and the finally of line 153
registerSuccess(S, data) ==
    [S EXCEPT !.lsToken = data.token, !.authHeader = data.token,
              !.user = data.user, !.loading = FALSE]

\* a faulty variant: the default Authorization header keeps the old token
refreshSuccessKeepsHeader(S, data) ==
    [S EXCEPT !.lsToken = data.token,
              !.user = IF data.user # NoUser THEN data.user ELSE @,
              !.refreshing = FALSE]

\* refreshToken, lines 201-213 and the finally of line 221
refreshSuccess(S, data) ==
    [S EXCEPT !.lsToken = data.token, !.authHeader = data.token,
              !.user = IF data.user # NoUser THEN data.user ELSE @,
              !.refreshing = FALSE]

\* a faulty variant: the stored token survives the logout
logoutFinallyKeepsToken(S) ==
    [S EXCEPT !.authHeader = NoToken, !.user = NoUser, !.loading = FALSE]

\* logout, the finally of lines 172-180
logoutFinally(S) ==
    [S EXCEPT !.lsToken = NoToken, !.authHeader = NoToken,
              !.user = NoUser, !.loading = FALSE]

\* authService.login, lines 50-64: what the catch rethrows
loginRethrow(error) ==
    IF error.response = UNAUTHORIZED THEN ThrownResponse(UNAUTHORIZED) ELSE error

\* authService.register, lines 124-143: what the catch rethrows
registerRethrow(error) ==
    IF error.response = UNPROCESSABLE_ENTITY
    THEN ThrownResponse(UNPROCESSABLE_ENTITY)
    ELSE error

RECURSIVE Settle(_, _, _, _, _)
RECURSIVE logout(_, _, _)

\* refreshToken has returned `refreshed` to its caller: the interval callback
\* ignores it, the 401 interceptor re-sends the held request or rejects it
RefreshReturn(S, c, refreshed) ==
    LET h == S.procs[c].held
        S1 == Finish(S, c, IF refreshed THEN "refresh_true" ELSE "refresh_false")
    IN IF c = "icpt"
       THEN IF refreshed
            THEN Resend(S1, h)
            ELSE Settle(S1, h, FALSE, NoData, S1.procs[h].err)
       ELSE S1

\* what runs after an awaited logout() has returned
Continue(S, o, cont) ==
    CASE cont = "logout_done" -> Finish(S, o, "logout_done")
      [] cont = "login_fail" -> Finish(S, o, "login_fail")
      [] cont = "fcu_401" -> logout(S, o, "init_catch")
      [] cont = "init_catch" -> Finish([S EXCEPT !.loading = FALSE], o, "init_fail")
      [] cont = "refresh_fail" -> RefreshReturn([S EXCEPT !.refreshing = FALSE], o, FALSE)

\* logout, lines 158-181: the server is asked only when a token is stored
logout(S, o, cont) ==
    IF S.lsToken # NoToken
    THEN SendRequest(S, o, S.procs[o].op, "logout_wait", cont)
    ELSE Continue(logoutFinally(S), o, cont)

\* a faulty variant: the guard of refreshToken never holds
refreshInProgressNever(S) == FALSE

\* refreshToken, line 192: `refreshing` as the closure of the last render saw it
refreshInProgress(S) == S.cbRefreshing

\* refreshToken, lines 192-200, called by c on behalf of the held owner h
refreshToken(S, c, h) ==
    IF refreshInProgress(S)
    THEN IF c = "icpt"
         THEN Settle(S, h, FALSE, NoData, S.procs[h].err)
         ELSE IF S.procs[c].pc = "idle"
              THEN [S EXCEPT !.procs[c] = [Idle EXCEPT !.res = "refresh_false"]]
              ELSE [S EXCEPT !.procs[c].res = "refresh_false"]
    ELSE LET S1 == [S EXCEPT !.refreshing = TRUE,
                             !.procs[c] = [Idle EXCEPT !.held = h]]
         IN SendRequest(S1, c, "refresh", "refresh_wait", "none")

\* a faulty variant: a failed getCurrentUser ends initializeAuth without logout()
fetchCurrentUserSettleKeepsToken(S, o, ok, data, error) ==
    IF ok
    THEN Finish([S EXCEPT !.user = data.user, !.loading = FALSE, !.procs[o].data = data],
                o, "init_ok")
    ELSE Finish([S EXCEPT !.loading = FALSE, !.procs[o].err = handleApiError(error)],
                o, "init_fail")

\* fetchCurrentUser, lines 68-84, and the catch / finally of initializeAuth
fetchCurrentUserSettle(S, o, ok, data, error) ==
    IF ok
    THEN Finish([S EXCEPT !.user = data.user, !.loading = FALSE, !.procs[o].data = data],
                o, "init_ok")
    ELSE LET processedError == handleApiError(error)
             S1 == [S EXCEPT !.procs[o].err = processedError]
         IN IF processedError.status = UNAUTHORIZED
            THEN logout(S1, o, "fcu_401")
            ELSE logout(S1, o, "init_catch")

\* a faulty variant: the catch of login returns without logout()
loginFailedNoLogout(S, o, error) ==
    Finish([S EXCEPT !.loading = FALSE, !.procs[o].err = handleApiError(error)],
           o, "login_fail")

\* login, the catch of lines 110-121
loginFailed(S, o, error) ==
    LET processedError == handleApiError(error)
    IN logout([S EXCEPT !.procs[o].err = processedError], o, "login_fail")

\* login, lines 91-121, after the request of authService.login has settled
loginSettle(S, o, ok, data, error) ==
    IF ok
    THEN Finish([loginSuccess(S, data) EXCEPT !.procs[o].data = data], o, "login_ok")
    ELSE loginFailed(S, o, loginRethrow(error))

\* register, the catch and finally of lines 144-154
registerFailed(S, o, error) ==
    LET processedError == handleApiError(error)
    IN Finish([S EXCEPT !.loading = FALSE, !.procs[o].err = processedError],
              o, "register_fail")

\* register, lines 129-154, after the request of authService.register has settled
registerSettle(S, o, ok, data, error) ==
    IF ok
    THEN Finish([registerSuccess(S, data) EXCEPT !.procs[o].data = data], o, "register_ok")
    ELSE registerFailed(S, o, registerRethrow(error))

\* a faulty variant: a failed refresh returns false without logging out
refreshTokenSettleNoLogout(S, c, ok, data, error) ==
    IF ok
    THEN RefreshReturn([refreshSuccess(S, data) EXCEPT !.procs[c].data = data], c, TRUE)
    ELSE RefreshReturn([S EXCEPT !.refreshing = FALSE], c, FALSE)

\* refreshToken, lines 200-222, after authService.refreshToken has settled
refreshTokenSettle(S, c, ok, data, error) ==
    IF ok
    THEN RefreshReturn([refreshSuccess(S, data) EXCEPT !.procs[c].data = data], c, TRUE)
    ELSE logout(S, c, "refresh_fail")

\* the promise of owner o's request settles: the code after the await runs
Settle(S, o, ok, data, error) ==
    LET pc == S.procs[o].pc
        S0 == [S EXCEPT !.procs[o].hold = FALSE]
    IN CASE pc = "init_wait" -> fetchCurrentUserSettle(S0, o, ok, data, error)
         [] pc = "login_wait" -> loginSettle(S0, o, ok, data, error)
         [] pc = "register_wait" -> registerSettle(S0, o, ok, data, error)
         [] pc = "logout_wait" -> Continue(logoutFinally(S0), o, S0.procs[o].cont)
         [] pc = "refresh_wait" -> refreshTokenSettle(S0, o, ok, data, error)
         [] pc = "api_wait" ->
                IF ok
                THEN Finish(S0, o, "api_ok")
                ELSE Finish([S0 EXCEPT !.procs[o].err = error], o, "api_fail")

-----------------------------------------------------------------------------
(* AuthContext.jsx response interceptor, error handler (lines 304-320).      *)
(* It is registered after the interceptor of api.js, so the error it gets    *)
(* is what that one rejected with.                                           *)

AuthResponseError(S, o, error) ==
    IF error.response = UNAUTHORIZED
    THEN IF ~error.config
         THEN Settle(S, o, FALSE, NoData, TypeErr)
         ELSE IF ~S.procs[o].retry /\ S.cbIsAuth
              THEN refreshToken([S EXCEPT !.procs[o].retry = TRUE,
                                          !.procs[o].hold = TRUE,
                                          !.procs[o].err = error,
                                          !.procs[o].refreshTried = TRUE],
                                "icpt", o)
              ELSE Settle(S, o, FALSE, NoData, error)
    ELSE Settle(S, o, FALSE, NoData, error)

\* the transport answers the request of owner o: the response runs through
\* the two response interceptors in the order of their registration and the
\* awaiting code continues
Respond(S, o, outcome, data) ==
    IF IsSuccess(outcome)
    THEN Settle(S, o, TRUE, data, NoErr)
    ELSE LET r == ApiResponseError(S, o, AxiosError(outcome))
             S1 == [r.store EXCEPT !.procs[o].got401 =
                        @ \/ (outcome = "e401" /\ S.user # NoUser /\ S.cbIsAuth)]
         IN AuthResponseError(S1, o, r.error)

-----------------------------------------------------------------------------
(* The authentication context as a state machine *)

TickMs == 5 * 60 * 1000

AuthOutcomes == {"ok", "e401", "e422", "e500", "network"}

InitProcs ==
    [o \in Owners |-> IF o = "auth" THEN [Idle EXCEPT !.op = "init", !.pc = "start"]
                                    ELSE Idle]

\* a page that has just loaded: nothing in memory, AuthProvider's initial state
FreshPage ==
    /\ authHeader = NoToken
    /\ user = NoUser
    /\ loading = TRUE
    /\ refreshing = FALSE
    /\ redirected = FALSE
    /\ cbIsAuth = FALSE
    /\ cbRefreshing = FALSE
    /\ timerArmed = FALSE
    /\ timerElapsed = 0
    /\ procs = InitProcs

AuthInit ==
    /\ lsToken = NoToken
    /\ FreshPage

\* the body of a response: a token and a user for a 2xx answer
ServerData(outcome, tokens, users) ==
    IF outcome = "ok" THEN [token : tokens, user : users] ELSE {NoData}

Start(S, o, op) == [S EXCEPT !.procs[o] = [Idle EXCEPT !.op = op, !.pc = "run"]]

\* a state change that React has not rendered yet.  React commits the render
\* and runs the effects before it handles the next user event and long before
\* the next tick of the clock; only callbacks of timers and of the network can
\* run in between.
RenderPending == cbIsAuth # (user # NoUser) \/ cbRefreshing # refreshing

Waiting(o, pc) == procs[o].pc = pc /\ ~procs[o].hold

\* the 401 interceptor has one refreshToken call of its own at a time
IcptFree(outcome) == outcome = "e401" => procs["icpt"].pc = "idle"

\* initializeAuth, lines 44-57, run once by the mount effect
InitializeAuth ==
    /\ procs["auth"].op = "init" /\ procs["auth"].pc = "start"
    /\ IF lsToken = NoToken
       THEN ApplyStore(Finish([Store EXCEPT !.loading = FALSE], "auth", "init_none"))
       ELSE ApplyStore(SendRequest([Store EXCEPT !.authHeader = lsToken],
                                   "auth", "init", "init_wait", "none"))
    /\ UNCHANGED <<timerArmed, timerElapsed, httpVars, pageVars, serviceVars, routeVars, optimisticVars>>

InitResponse ==
    /\ Waiting("auth", "init_wait")
    /\ \E outcome \in AuthOutcomes : \E data \in ServerData(outcome, {NoToken}, Users) :
          /\ IcptFree(outcome)
          /\ ApplyStore(Respond(Store, "auth", outcome, data))
    /\ UNCHANGED <<timerArmed, timerElapsed, httpVars, pageVars, serviceVars, routeVars, optimisticVars>>

\* login(credentials), lines 87-91; authService.login validates first
Login ==
    /\ procs["auth"].pc = "idle"
    /\ ~RenderPending
    /\ \E valid \in BOOLEAN :
          LET S1 == Start([Store EXCEPT !.loading = TRUE], "auth", "login")
          IN IF valid
             THEN ApplyStore(SendRequest(S1, "auth", "login", "login_wait", "none"))
             ELSE ApplyStore(loginFailed(S1, "auth", ThrownResponse(UNPROCESSABLE_ENTITY)))
    /\ UNCHANGED <<timerArmed, timerElapsed, httpVars, pageVars, serviceVars, routeVars, optimisticVars>>

LoginResponse ==
    /\ Waiting("auth", "login_wait")
    /\ \E outcome \in AuthOutcomes : \E data \in ServerData(outcome, Tokens, Users) :
          /\ IcptFree(outcome)
          /\ ApplyStore(Respond(Store, "auth", outcome, data))
    /\ UNCHANGED <<timerArmed, timerElapsed, httpVars, pageVars, serviceVars, routeVars, optimisticVars>>

\* register(userData), lines 125-129; authService.register validates first
Register ==
    /\ procs["auth"].pc = "idle"
    /\ ~RenderPending
    /\ \E valid \in BOOLEAN :
          LET S1 == Start([Store EXCEPT !.loading = TRUE], "auth", "register")
          IN IF valid
             THEN ApplyStore(SendRequest(S1, "auth", "register", "register_wait", "none"))
             ELSE ApplyStore(registerFailed(S1, "auth",
                                            ThrownResponse(UNPROCESSABLE_ENTITY)))
    /\ UNCHANGED <<timerArmed, timerElapsed, httpVars, pageVars, serviceVars, routeVars, optimisticVars>>

RegisterResponse ==
    /\ Waiting("auth", "register_wait")
    /\ \E outcome \in AuthOutcomes : \E data \in ServerData(outcome, Tokens, Users) :
          /\ IcptFree(outcome)
          /\ ApplyStore(Respond(Store, "auth", outcome, data))
    /\ UNCHANGED <<timerArmed, timerElapsed, httpVars, pageVars, serviceVars, routeVars, optimisticVars>>

\* logout(), called by the UI
Logout ==
    /\ procs["auth"].pc = "idle"
    /\ ~RenderPending
    /\ ApplyStore(logout(Start(Store, "auth", "logout"), "auth", "logout_done"))
    /\ UNCHANGED <<timerArmed, timerElapsed, httpVars, pageVars, serviceVars, routeVars, optimisticVars>>

\* the answer to POST /auth/logout, whoever awaits logout()
LogoutResponse ==
    /\ \E o \in {"auth", "timer", "icpt"}, outcome \in AuthOutcomes :
          /\ Waiting(o, "logout_wait")
          /\ IcptFree(outcome)
          /\ ApplyStore(Respond(Store, o, outcome, NoData))
    /\ UNCHANGED <<timerArmed, timerElapsed, httpVars, pageVars, serviceVars, routeVars, optimisticVars>>

\* the answer to POST /auth/refresh
RefreshResponse ==
    /\ \E c \in {"timer", "icpt"}, outcome \in AuthOutcomes :
        \E data \in ServerData(outcome, Tokens, Users \cup {NoUser}) :
          /\ Waiting(c, "refresh_wait")
          /\ IcptFree(outcome)
          /\ ApplyStore(Respond(Store, c, outcome, data))
    /\ UNCHANGED <<timerArmed, timerElapsed, httpVars, pageVars, serviceVars, routeVars, optimisticVars>>

\* api.setAuthToken(token), api.js lines 349-357
setAuthToken(S, token) ==
    IF token # NoToken
    THEN [S EXCEPT !.authHeader = token, !.lsToken = token]
    ELSE [S EXCEPT !.authHeader = NoToken, !.lsToken = NoToken]

SetAuthToken ==
    /\ ~RenderPending
    /\ \E token \in Tokens \cup {NoToken} :
          /\ token # lsToken \/ token # authHeader
          /\ ApplyStore(setAuthToken(Store, token))
    /\ UNCHANGED <<timerArmed, timerElapsed, httpVars, pageVars, serviceVars, routeVars, optimisticVars>>

\* a component sends a request through the api client
ApiRequest ==
    /\ procs["api"].pc = "idle"
    /\ ~RenderPending
    /\ ApplyStore(SendRequest(Start(Store, "api", "request"),
                              "api", "request", "api_wait", "none"))
    /\ UNCHANGED <<timerArmed, timerElapsed, httpVars, pageVars, serviceVars, routeVars, optimisticVars>>

ApiResponse ==
    /\ Waiting("api", "api_wait")
    /\ \E outcome \in AuthOutcomes :
          /\ IcptFree(outcome)
          /\ ApplyStore(Respond(Store, "api", outcome, NoData))
    /\ UNCHANGED <<timerArmed, timerElapsed, httpVars, pageVars, serviceVars, routeVars, optimisticVars>>

\* a faulty variant: the effect has no cleanup, a running interval is never cleared
AutoRefreshEffectNoCleanup(armed, isAuthenticated) == armed \/ isAuthenticated

\* the auto-refresh effect, lines 281-298: the cleanup clears the interval of
\* the previous run, and a new one is set only for an authenticated user
AutoRefreshEffect(armed, isAuthenticated) == isAuthenticated

\* React renders AuthProvider after a state change: the closures see the new
\* isAuthenticated and refreshing, and the effects that depend on them
\* (isAuthenticated, refreshToken) run again
Render ==
    /\ RenderPending
    /\ cbIsAuth' = (user # NoUser)
    /\ cbRefreshing' = refreshing
    /\ timerArmed' = AutoRefreshEffect(timerArmed, user # NoUser)
    /\ timerElapsed' = 0
    /\ procs' = Forget(procs)
    /\ UNCHANGED <<lsToken, authHeader, user, loading, refreshing, redirected>>
    /\ UNCHANGED <<httpVars, pageVars, serviceVars, routeVars, optimisticVars>>

\* time passes while the interval is pending
Tick ==
    /\ timerArmed
    /\ ~RenderPending
    /\ timerElapsed < RefreshIntervalMs
    /\ timerElapsed' = timerElapsed + TickMs
    /\ procs' = Forget(procs)
    /\ UNCHANGED <<lsToken, authHeader, user, loading, refreshing, redirected,
                   cbIsAuth, cbRefreshing, timerArmed, httpVars, pageVars, serviceVars, routeVars, optimisticVars>>

\* the setInterval callback, lines 285-295.  While the refresh of an earlier
\* callback is awaited the callback runs when the guard of refreshToken stops
\* it; C15 shows that nothing else is reachable.
TimerCallback ==
    /\ timerArmed
    /\ timerElapsed = RefreshIntervalMs
    /\ procs["timer"].pc = "idle" \/ (lsToken # NoToken /\ cbRefreshing)
    /\ timerElapsed' = 0
    /\ IF lsToken # NoToken
       THEN ApplyStore(refreshToken(Store, "timer", "none"))
       ELSE /\ procs' = [Forget(procs) EXCEPT !["timer"] = [Idle EXCEPT !.res = "no_token"]]
            /\ UNCHANGED <<lsToken, authHeader, user, loading, refreshing, redirected,
                           cbIsAuth, cbRefreshing>>
    /\ UNCHANGED <<timerArmed, httpVars, pageVars, serviceVars, routeVars, optimisticVars>>

\* the browser loads the page: after the redirect to /login, or a reload.
\* Only localStorage survives.
PageLoad ==
    /\ procs["auth"].pc # "start"
    /\ authHeader' = NoToken
    /\ user' = NoUser
    /\ loading' = TRUE
    /\ refreshing' = FALSE
    /\ redirected' = FALSE
    /\ cbIsAuth' = FALSE
    /\ cbRefreshing' = FALSE
    /\ timerArmed' = FALSE
    /\ timerElapsed' = 0
    /\ procs' = InitProcs
    /\ UNCHANGED <<lsToken, httpVars, pageVars, serviceVars, routeVars, optimisticVars>>

NextAuth ==
    \/ InitializeAuth
    \/ InitResponse
    \/ Login
    \/ LoginResponse
    \/ Register
    \/ RegisterResponse
    \/ Logout
    \/ LogoutResponse
    \/ RefreshResponse
    \/ SetAuthToken
    \/ ApiRequest
    \/ ApiResponse
    \/ Render
    \/ Tick
    \/ TimerCallback
    \/ PageLoad


-----------------------------------------------------------------------------
(* api.js: requestWithRetry and the enhanced HTTP methods *)

MaxClock == 3

HttpTickMs == 2 * 60 * 1000
DefaultCacheMs == 5 * 60 * 1000

\* the GET requests of the model: a url and its params
Requests == {<<"/news", "{}">>, <<"/news", "{page:2}">>, <<"/documents", "{}">>}

\* `api_cache_${url}_${JSON.stringify(config.params || {})}`: one localStorage
\* key per url and serialized params
cacheKey(url, params) == <<"api_cache", url, params>>

CacheKeys == {cacheKey(r[1], r[2]) : r \in Requests}

NoEntry == [present |-> FALSE, data |-> 0, timestamp |-> 0]

\* config.cacheDuration: <<>> when the property is absent, <<ms>> otherwise
CacheDurations == {<<>>, <<0>>, <<HttpTickMs>>}

HttpOutcomes == {"ok", "s204", "e401", "e403", "e404", "e422", "e500", "network", "timeout"}

NoCall == [fn |-> "none", pc |-> "idle", key |-> cacheKey("/news", "{}"),
           cacheDuration |-> <<>>, useCache |-> TRUE,
           retryCount |-> 0,
           sent |-> 0,            \* transport attempts of this call
           delays |-> <<>>,       \* the waits before the retries, in ms
           fail |-> "none",       \* the outcome of the last failed attempt
           optimistic |-> "none", \* onOptimisticUpdate / onRollback have run
           fromCache |-> FALSE, status |-> 0, data |-> 0, err |-> NoErr]

\* a retry budget that is off by one: retryCount <= retryAttempts
shouldRetryOffByOne(retryCount, error) ==
    /\ retryCount <= retryAttempts
    /\ (error.response = 0 \/ error.response >= INTERNAL_SERVER_ERROR)
    /\ error.code # "ECONNABORTED"

\* requestWithRetry, lines 142-145
shouldRetry(retryCount, error) ==
    /\ retryCount < retryAttempts
    /\ (error.response = 0 \/ error.response >= INTERNAL_SERVER_ERROR)
    /\ error.code # "ECONNABORTED"

\* requestWithRetry, line 148
backoffDelay(retryCount) == retryDelay * (2 ^ retryCount)

\* getWithCache, line 167
effectiveDuration(cacheDuration) ==
    IF cacheDuration = <<>> \/ cacheDuration = <<0>>
    THEN DefaultCacheMs
    ELSE cacheDuration[1]

\* getWithCache, line 172
cacheFresh(cachedData, t, duration) ==
    cachedData.present /\ t - cachedData.timestamp < duration

\* getWithCache, line 182
shouldStore(useCache, status) == useCache /\ status = OK

\* cacheDuration and fail describe the step just taken: the arguments of the
\* call made in it, the failure answered in it; the next step forgets them,
\* and the result of a call that has returned
ForgetCall(call) ==
    IF call.pc \in {"idle", "done", "failed"}
    THEN NoCall
    ELSE [call EXCEPT !.cacheDuration = <<>>]

\* requestWithRetry, line 140: api(config)
Transport(call) ==
    /\ ApplyStore(SendRequest(Start(Store, "api", "request"),
                              "api", "request", "api_wait", "none"))
    /\ rq' = [call EXCEPT !.pc = "flight", !.sent = @ + 1]

\* api.getWithCache(url, { params, cacheDuration, useCache })
GetWithCache ==
    /\ rq.pc \in {"idle", "done", "failed"}
    /\ \E r \in Requests, cd \in CacheDurations, useCache \in BOOLEAN :
          LET key == cacheKey(r[1], r[2])
              call == [NoCall EXCEPT !.fn = "getWithCache", !.key = key,
                                     !.cacheDuration = cd, !.useCache = useCache]
          IN IF useCache /\ cacheFresh(cache[key], now, effectiveDuration(cd))
             THEN /\ rq' = [call EXCEPT !.pc = "done", !.fromCache = TRUE,
                                        !.data = cache[key].data]
                  /\ UNCHANGED <<lsToken, authHeader, user, loading, refreshing,
                                 redirected, procs>>
             ELSE Transport(call)
    /\ UNCHANGED <<cache, now, cbIsAuth, cbRefreshing, timerArmed, timerElapsed, pageVars, serviceVars, routeVars, optimisticVars>>

\* api.postOptimistic(url, data, { onOptimisticUpdate, onRollback })
PostOptimistic ==
    /\ rq.pc \in {"idle", "done", "failed"}
    /\ \E callbacks \in BOOLEAN :
          Transport([NoCall EXCEPT !.fn = "postOptimistic",
                                   !.optimistic = IF callbacks THEN "applied" ELSE "none"])
    /\ UNCHANGED <<cache, now, cbIsAuth, cbRefreshing, timerArmed, timerElapsed, pageVars, serviceVars, routeVars, optimisticVars>>

\* api.uploadFile(url, file, options)
UploadFile ==
    /\ rq.pc \in {"idle", "done", "failed"}
    /\ Transport([NoCall EXCEPT !.fn = "uploadFile"])
    /\ UNCHANGED <<cache, now, cbIsAuth, cbRefreshing, timerArmed, timerElapsed, pageVars, serviceVars, routeVars, optimisticVars>>

\* the transport answers: the interceptors run, then the code after
\* `await api(config)` in requestWithRetry and in the method that called it.
\* The body of a response is the server's content at that moment.
HttpResponse ==
    /\ rq.pc = "flight"
    /\ Waiting("api", "api_wait")
    /\ \E outcome \in HttpOutcomes :
          LET S1 == Respond(Store, "api", outcome, NoData)
              settled == S1.procs["api"].pc = "idle"
              error == S1.procs["api"].err
              call == ForgetCall(rq)
          IN /\ IcptFree(outcome)
             /\ ApplyStore(S1)
             /\ IF ~settled
                THEN /\ rq' = call
                     /\ cache' = cache
                ELSE IF IsSuccess(outcome)
                THEN /\ rq' = [call EXCEPT !.pc = "done", !.status = StatusOf(outcome),
                                           !.data = now + 1]
                     /\ cache' = IF call.fn = "getWithCache"
                                    /\ shouldStore(call.useCache, StatusOf(outcome))
                                 THEN [cache EXCEPT ![call.key] =
                                          [present |-> TRUE, data |-> now + 1,
                                           timestamp |-> now]]
                                 ELSE cache
                ELSE IF shouldRetry(call.retryCount, error)
                THEN /\ rq' = [call EXCEPT !.pc = "backoff", !.fail = outcome,
                                           !.delays = Append(@, backoffDelay(call.retryCount))]
                     /\ cache' = cache
                ELSE /\ rq' = [call EXCEPT !.pc = "failed", !.fail = outcome, !.err = error,
                                         !.optimistic = IF @ = "applied" THEN "rolledback"
                                                                         ELSE @]
                     /\ cache' = cache
    /\ UNCHANGED <<now, cbIsAuth, cbRefreshing, timerArmed, timerElapsed, pageVars, serviceVars, routeVars, optimisticVars>>

\* the setTimeout of the backoff fires: requestWithRetry(config, retryCount + 1)
RetryRequest ==
    /\ rq.pc = "backoff"
    /\ Transport([ForgetCall(rq) EXCEPT !.retryCount = @ + 1, !.fail = "none"])
    /\ UNCHANGED <<cache, now, cbIsAuth, cbRefreshing, timerArmed, timerElapsed, pageVars, serviceVars, routeVars, optimisticVars>>

\* Date.now() advances
HttpTick ==
    /\ now < MaxClock * HttpTickMs
    /\ now' = now + HttpTickMs
    /\ rq' = ForgetCall(rq)
    /\ procs' = Forget(procs)
    /\ UNCHANGED <<lsToken, authHeader, user, loading, refreshing, redirected,
                   cbIsAuth, cbRefreshing, timerArmed, timerElapsed, cache, pageVars, serviceVars, routeVars, optimisticVars>>

-----------------------------------------------------------------------------
(* usePaginatedApi over useApi, mounted as the News page mounts it: the      *)
(* apiFunction is newsService.getNewsList, pageSize is 12, cachePages keeps  *)
(* its default.  The user acts on a committed render whose effects have run  *)
(* and waits for the pending requests of the list (UserReady).               *)

\* the pages the user asks for
MaxPage == 2
\* the entries cacheRef holds at a time: a response waits until an older
\* entry has expired
MaxCached == 1
\* the retry loops of fetchData that run at a time: an effect that needs a
\* further one waits until one has returned
MaxPending == 1

pageSize == 12
initialPage == 1
defaultPageSize == 10
hookRetryAttempts == 3
searchDebounceMs == 300
SearchTickMs == searchDebounceMs \div 3

Null == "null"

SearchTerms == {"", "budget"}
Categories == {"economy"}
Sorts == {<<"title", "desc">>}

\* a JavaScript object: the set of its own keys, and the value under each key
\* ("0", the key an array spread gives its first element, has its value in zero)
EmptyObj == [keys |-> {}, page |-> 0, per_page |-> 0, search |-> "", category |-> "",
             status |-> "", sort_by |-> "", sort_order |-> "", zero |-> "none"]

FieldKey(k) == IF k = "zero" THEN "0" ELSE k

\* { ...a, ...b }
Spread(a, b) ==
    [k \in DOMAIN a |-> IF k = "keys" THEN a.keys \cup b.keys
                        ELSE IF FieldKey(k) \in b.keys THEN b[k]
                        ELSE a[k]]

\* { signal, ...args } for the array args of fetchData
SpreadArgs(args) ==
    [EmptyObj EXCEPT !.keys = {"signal"} \cup (IF Len(args) > 0 THEN {"0"} ELSE {}),
                     !.zero = IF Len(args) > 0 THEN args[1] ELSE "none"]

\* a destructuring default: const { k = d } = o
Pick(o, k, d) == IF k \in o.keys THEN o[k] ELSE d

\* the params newsService.getNewsList sends with GET /news
getNewsList(params) ==
    [page |-> Pick(params, "page", 1),
     per_page |-> Pick(params, "per_page", defaultPageSize),
     search |-> Pick(params, "search", ""),
     category |-> Pick(params, "category", ""),
     status |-> Pick(params, "status", ""),
     sort_by |-> Pick(params, "sort_by", "created_at"),
     sort_order |-> Pick(params, "sort_order", "desc")]

\* what getNewsList returns for a response body
NewsResult == [keys |-> {"success", "data"}, last_page |-> 0, total |-> 0]

\* response.last_page || 0
lastPageOf(response) == IF "last_page" \in response.keys THEN response.last_page ELSE 0

\* response.total || 0
totalOf(response) == IF "total" \in response.keys THEN response.total ELSE 0

\* the body the server answers a list query with: the records of the page
\* under data, and the pagination figures of the query
NoBody == [keys |-> {}, data |-> "none", last_page |-> 0, total |-> 0]

\* the server has the pages the user may ask for
ServerBodies ==
    {[keys |-> {"data", "last_page", "total"}, data |-> "records",
      last_page |-> MaxPage, total |-> MaxPage * pageSize]}

\* a list service (getNewsList, getDocuments, getUsers) returns
\* { success: true, data: response.data }
serviceResult(body) ==
    [k \in DOMAIN NewsResult \cup {"data"} |-> IF k = "data" THEN body ELSE NewsResult[k]]

\* arrays, as objects of the same shape: [] and the records of a page
EmptyArray == [keys |-> {"length"}, data |-> "none", last_page |-> 0, total |-> 0]

Records == [keys |-> {"length", "0"}, data |-> "none", last_page |-> 0, total |-> 0]

\* body.data
recordsOf(body) == IF body.data = "records" THEN Records ELSE EmptyArray

\* usePaginatedApi, line 566: items is response?.data || []
items(response) == IF "data" \in response.keys THEN response.data ELSE EmptyArray

\* usePaginatedApi, lines 495-502
apiParams(h) ==
    Spread([EmptyObj EXCEPT !.keys = {"page", "per_page", "search", "sort_by", "sort_order"},
                            !.page = h.page, !.per_page = pageSize,
                            !.search = h.searchTerm,
                            !.sort_by = h.sortBy, !.sort_order = h.sortOrder],
           h.filters)

NoCalls == [made |-> FALSE, arg |-> EmptyObj,
            settled |-> "none",   \* how a fetchData call returned in this step
            failed |-> 0,         \* the failed calls of apiFunction it had made
            burst |-> 0,          \* the burst whose last term was applied in this step
            deleted |-> FALSE,    \* deleteNews has succeeded in this step
            op |-> "none",        \* the handler of the hook called in this step,
            input |-> EmptyObj,   \* its argument, and the page before the call
            from |-> 0,
            body |-> NoBody,      \* the body of the response that settled in this step
            items |-> EmptyArray, \* items as the hook returns it after that response
            sent |-> [page |-> 0, per_page |-> 0, search |-> "", category |-> "",
                      status |-> "", sort_by |-> "", sort_order |-> ""]]

\* useApi.fetchData, line 373: apiFunction({ signal, ...args })
Call(args) == [made |-> TRUE, arg |-> SpreadArgs(args), settled |-> "none", failed |-> 0,
               burst |-> 0, deleted |-> FALSE, op |-> "none", input |-> EmptyObj, from |-> 0,
               body |-> NoBody, items |-> EmptyArray,
               sent |-> getNewsList(SpreadArgs(args))]

\* the closure of one debounce(func, wait): the pending timeouts, each with the
\* arguments its `later` holds, and the variable timeout; last, since and burst
\* record the last call of the debounced function, the time since it, and
\* whether it was the first call (1) or a further call (2) of its burst
NoTimer == [term |-> "", elapsed |-> -1]

NoDebounce == [timers |-> {}, timeout |-> NoTimer, last |-> "", since |-> 0, burst |-> 0]

\* a debounce that does not clear the pending timeout
debounceCallNoClear(d, term) ==
    LET t == [term |-> term, elapsed |-> 0]
    IN [d EXCEPT !.timers = @ \cup {t}, !.timeout = t]

\* debounce, lines 340-342: clearTimeout(timeout); timeout = setTimeout(later, wait)
debounceCall(d, term) ==
    LET t == [term |-> term, elapsed |-> 0]
    IN [d EXCEPT !.timers = (@ \ {d.timeout}) \cup {t}, !.timeout = t]

\* time passes for the pending timeouts
debounceTick(d) ==
    LET older(t) == [t EXCEPT !.elapsed = @ + SearchTickMs]
    IN [d EXCEPT !.timers = {older(t) : t \in @},
                 !.timeout = IF @ = NoTimer THEN @ ELSE older(@),
                 !.since = @ + SearchTickMs]

\* debounce, lines 335-338: later sets timeout to null and calls func
debounceLater(d, t) == [d EXCEPT !.timers = @ \ {t}, !.timeout = NoTimer]

TimerDue(t) == t.elapsed >= searchDebounceMs

\* the state of the hook after mounting; data is the cache key whose entry is
\* the object held in data, or EmptyObj for null and for any other object
HookInit0 ==
    [page |-> initialPage, totalPages |-> 0, totalItems |-> 0, searchTerm |-> "",
     filters |-> EmptyObj, sortBy |-> Null, sortOrder |-> "asc",
     loading |-> TRUE, error |-> FALSE, attempt |-> 0, data |-> EmptyObj,
     effects |-> TRUE,     \* a render is committed and its effects have not run
     pending |-> {},       \* the retry loops of fetchData that have not returned
     cacheRef |-> {},      \* the keys of cacheRef.current
     debounce |-> NoDebounce,
     deleteDialog |-> "closed"]   \* "open", or "deleting" while deleteNews is awaited

\* the user acts on a settled list; a burst of typing is not interleaved with
\* other actions
\* the confirmation dialog is modal: the list is used while it is closed
ListSettled == ~hook.effects /\ hook.pending = {} /\ hook.deleteDialog = "closed"

UserReady == ListSettled /\ hook.debounce.timers = {}

\* the user acts on the dialog as on the list: on a settled render
DialogReady ==
    /\ ~hook.effects /\ hook.pending = {} /\ hook.debounce.timers = {}
    /\ hook.deleteDialog = "open"

\* a retry loop that always gives up one call early
retryAgainOffByOne(i) == i + 1 < hookRetryAttempts

\* useApi.fetchData, lines 368 and 408: after the failure of call i the loop
\* waits and calls apiFunction again
retryAgain(i) == i < hookRetryAttempts

\* useApi.fetchData up to its first await, lines 344-373
fetchData(h, args) ==
    LET key == apiParams(h)
    IN IF key \in h.cacheRef
       THEN [hook |-> [h EXCEPT !.data = key, !.loading = FALSE, !.error = FALSE,
                                !.effects = @ \/ h.data # key \/ h.loading \/ h.error],
             calls |-> [NoCalls EXCEPT !.settled = "cached"]]
       ELSE [hook |-> [h EXCEPT !.loading = TRUE, !.error = FALSE, !.attempt = 0,
                                !.effects = @ \/ ~h.loading \/ h.error \/ h.attempt # 0,
                                !.pending = @ \cup {[i |-> 0, phase |-> "flight",
                                                     args |-> args, failed |-> 0]}],
             calls |-> Call(args)]

setPage(h, n) == [h EXCEPT !.page = n, !.effects = @ \/ h.page # n]

nextPage(h) == IF h.page < h.totalPages THEN setPage(h, h.page + 1) ELSE h

prevPage(h) == IF h.page > 1 THEN setPage(h, h.page - 1) ELSE h

goToPage(h, pageNumber) ==
    IF pageNumber >= 1 /\ pageNumber <= h.totalPages THEN setPage(h, pageNumber) ELSE h

\* the callback debouncedSearch runs after searchDebounceMs
debouncedSearch(h, term) ==
    [h EXCEPT !.searchTerm = term, !.page = 1,
              !.effects = @ \/ h.searchTerm # term \/ h.page # 1]

\* a faulty variant: the new object replaces the filters
updateFiltersReplace(h, newFilters) ==
    [h EXCEPT !.filters = newFilters, !.page = 1, !.effects = TRUE]

updateFilters(h, newFilters) ==
    [h EXCEPT !.filters = Spread(@, newFilters), !.page = 1, !.effects = TRUE]

updateSort(h, field, order) ==
    [h EXCEPT !.sortBy = field, !.sortOrder = order, !.page = 1,
              !.effects = @ \/ h.sortBy # field \/ h.sortOrder # order \/ h.page # 1]

clearFilters(h) ==
    [h EXCEPT !.filters = EmptyObj, !.searchTerm = "", !.sortBy = Null,
              !.sortOrder = "asc", !.page = 1, !.effects = TRUE]

\* cacheRef loses the entry of key
dropCached(h, key) ==
    [h EXCEPT !.cacheRef = @ \ {key},
              !.data = IF @ = key THEN EmptyObj ELSE @]

\* nextPage, prevPage, goToPage and setPage as the hook returns them
PageNavigation ==
    /\ UserReady
    /\ \E n \in 1..MaxPage :
          hook' \in {nextPage(hook), prevPage(hook), goToPage(hook, n), setPage(hook, n)}
    /\ calls' = NoCalls
    /\ UNCHANGED <<authVars, httpVars, serviceVars, routeVars, optimisticVars>>

\* setSearchTerm(term) of the hook: a call of the debounced function.  A
\* timeout that is due runs before the next event.
SetSearchTerm ==
    /\ ListSettled
    /\ \A t \in hook.debounce.timers : ~TimerDue(t)
    /\ \E term \in SearchTerms :
          hook' = [hook EXCEPT !.debounce =
                      [debounceCall(@, term) EXCEPT
                          !.last = term, !.since = 0,
                          !.burst = IF hook.debounce.timers = {} THEN 1 ELSE 2]]
    /\ calls' = NoCalls
    /\ UNCHANGED <<authVars, httpVars, serviceVars, routeVars, optimisticVars>>

\* time passes while a timeout of the debounce is pending
SearchTick ==
    /\ hook.debounce.timers # {}
    /\ \A t \in hook.debounce.timers : ~TimerDue(t)
    /\ hook' = [hook EXCEPT !.debounce = debounceTick(@)]
    /\ calls' = NoCalls
    /\ UNCHANGED <<authVars, httpVars, serviceVars, routeVars, optimisticVars>>

\* a timeout of the debounce fires: later runs the callback
DebouncedSearch ==
    /\ \E t \in hook.debounce.timers :
          /\ TimerDue(t)
          /\ LET d == debounceLater(hook.debounce, t)
             IN hook' = debouncedSearch(
                           [hook EXCEPT !.debounce = IF d.timers = {} THEN NoDebounce
                                                                      ELSE d],
                           t.term)
          /\ calls' = [NoCalls EXCEPT !.burst = hook.debounce.burst]
    /\ UNCHANGED <<authVars, httpVars, serviceVars, routeVars, optimisticVars>>

UpdateFilters ==
    /\ UserReady
    /\ \E c \in Categories :
          hook' = updateFilters(hook, [EmptyObj EXCEPT !.keys = {"category"},
                                                       !.category = c])
    /\ calls' = NoCalls
    /\ UNCHANGED <<authVars, httpVars, serviceVars, routeVars, optimisticVars>>

UpdateSort ==
    /\ UserReady
    /\ \E sort \in Sorts : hook' = updateSort(hook, sort[1], sort[2])
    /\ calls' = NoCalls
    /\ UNCHANGED <<authVars, httpVars, serviceVars, routeVars, optimisticVars>>

ClearFilters ==
    /\ UserReady
    /\ hook' = clearFilters(hook)
    /\ calls' = NoCalls
    /\ UNCHANGED <<authVars, httpVars, serviceVars, routeVars, optimisticVars>>

\* useApi.refetch, lines 441-443
refetch(h, args) == fetchData(h, args)

\* refetch(), or refetch as an onClick handler: refetch(event)
Refetch ==
    /\ UserReady
    /\ \E args \in {<<>>, <<"event">>} :
          /\ hook' = refetch(hook, args).hook
          /\ calls' = refetch(hook, args).calls
    /\ UNCHANGED <<authVars, httpVars, serviceVars, routeVars, optimisticVars>>

\* News.handleDeleteNews, the handler of an article of the list shown: the
\* dialog opens
HandleDeleteNews ==
    /\ UserReady
    /\ hook.data # EmptyObj
    /\ hook' = [hook EXCEPT !.deleteDialog = "open", !.effects = TRUE]
    /\ calls' = NoCalls
    /\ UNCHANGED <<authVars, httpVars, serviceVars, routeVars, optimisticVars>>

\* Cancel, or onClose of the dialog
CancelDelete ==
    /\ DialogReady
    /\ hook' = [hook EXCEPT !.deleteDialog = "closed", !.effects = TRUE]
    /\ calls' = NoCalls
    /\ UNCHANGED <<authVars, httpVars, serviceVars, routeVars, optimisticVars>>

\* News.confirmDelete up to its await, lines 107-111
ConfirmDelete ==
    /\ DialogReady
    /\ hook' = [hook EXCEPT !.deleteDialog = "deleting"]
    /\ calls' = NoCalls
    /\ UNCHANGED <<authVars, httpVars, serviceVars, routeVars, optimisticVars>>

\* newsService.deleteNews settles, lines 112-118: on success refetch() and the
\* dialog closes; on failure the dialog stays open
DeleteSettle ==
    /\ hook.deleteDialog = "deleting"
    /\ \E ok \in BOOLEAN :
          IF ok
          THEN LET r == refetch(hook, <<>>)
               IN /\ hook' = [r.hook EXCEPT !.deleteDialog = "closed", !.effects = TRUE]
                  /\ calls' = [r.calls EXCEPT !.deleted = TRUE]
          ELSE /\ hook' = [hook EXCEPT !.deleteDialog = "open"]
               /\ calls' = NoCalls
    /\ UNCHANGED <<authVars, httpVars, serviceVars, routeVars, optimisticVars>>

\* clearCache(): cacheRef.current.delete(cacheKey)
ClearCache ==
    /\ UserReady
    /\ apiParams(hook) \in hook.cacheRef
    /\ hook' = dropCached(hook, apiParams(hook))
    /\ calls' = NoCalls
    /\ UNCHANGED <<authVars, httpVars, serviceVars, routeVars, optimisticVars>>

\* an entry of cacheRef becomes older than cacheDuration
CacheExpire ==
    /\ \E key \in hook.cacheRef : hook' = dropCached(hook, key)
    /\ calls' = NoCalls
    /\ UNCHANGED <<authVars, httpVars, serviceVars, routeVars, optimisticVars>>

\* the effect of useApi runs after a render: its dependency [apiParams] is a
\* new object in every render
FetchEffect ==
    /\ hook.effects
    /\ LET r == fetchData([hook EXCEPT !.effects = FALSE], <<"apiParams">>)
       IN /\ r.calls.made => Cardinality(hook.pending) < MaxPending
          /\ hook' = r.hook
          /\ calls' = r.calls
    /\ UNCHANGED <<authVars, httpVars, serviceVars, routeVars, optimisticVars>>

\* apiFunction settles in one retry loop of fetchData, lines 374-425, and the
\* effect on [response] sets the totals, lines 519-524
FetchSettle ==
    /\ \E p \in hook.pending, ok \in BOOLEAN, body \in ServerBodies :
          LET key == apiParams(hook)
              response == serviceResult(body)
          IN /\ p.phase = "flight"
             /\ IF ok
                THEN /\ Cardinality(hook.cacheRef \cup {key}) <= MaxCached
                     /\ hook' = [hook EXCEPT !.data = key, !.loading = FALSE,
                                             !.error = FALSE, !.attempt = 0,
                                             !.cacheRef = @ \cup {key},
                                             !.pending = @ \ {p},
                                             !.totalPages = lastPageOf(response),
                                             !.totalItems = totalOf(response),
                                             !.effects = TRUE]
                ELSE IF retryAgain(p.i)
                THEN hook' = [hook EXCEPT !.pending = (@ \ {p}) \cup
                                             {[p EXCEPT !.phase = "wait",
                                                        !.failed = @ + 1]}]
                ELSE hook' = [hook EXCEPT !.error = TRUE, !.loading = FALSE,
                                          !.attempt = 0, !.pending = @ \ {p},
                                          !.effects = TRUE]
             /\ calls' = [NoCalls EXCEPT
                             !.settled = IF ok THEN "success"
                                         ELSE IF retryAgain(p.i) THEN "none"
                                         ELSE "failure",
                             !.failed = IF ok THEN p.failed
                                        ELSE IF retryAgain(p.i) THEN 0
                                        ELSE p.failed + 1,
                             !.body = IF ok THEN body ELSE NoBody,
                             !.items = IF ok THEN items(response) ELSE EmptyArray]
    /\ UNCHANGED <<authVars, httpVars, serviceVars, routeVars, optimisticVars>>

\* the backoff of a retry loop ends: the next iteration calls apiFunction
FetchRetry ==
    /\ \E p \in hook.pending :
          /\ p.phase = "wait"
          /\ hook' = [hook EXCEPT !.attempt = p.i + 1,
                                  !.effects = @ \/ hook.attempt # p.i + 1,
                                  !.pending = (@ \ {p}) \cup
                                     {[p EXCEPT !.i = @ + 1, !.phase = "flight"]}]
          /\ calls' = Call(p.args)
    /\ UNCHANGED <<authVars, httpVars, serviceVars, routeVars, optimisticVars>>

-----------------------------------------------------------------------------
(* The query state of usePaginatedApi alone: the handlers the hook returns,  *)
(* called in any order with the arguments a page passes; the requests the    *)
(* changes cause are left to SpecPage.                                       *)

\* the objects passed to updateFilters
NewFilters ==
    {[EmptyObj EXCEPT !.keys = {"category"}, !.category = "economy"],
     [EmptyObj EXCEPT !.keys = {"status"}, !.status = "published"],
     [EmptyObj EXCEPT !.keys = {"category", "status"}, !.status = "draft"]}

QuerySorts == Sorts \cup {<<"title", "asc">>}

HandlerCall(op, input) == [NoCalls EXCEPT !.op = op, !.input = input, !.from = hook.page]

CallSetPage ==
    /\ \E n \in 1..MaxPage : hook' = setPage(hook, n)
    /\ calls' = HandlerCall("setPage", EmptyObj)
    /\ UNCHANGED <<authVars, httpVars, serviceVars, routeVars, optimisticVars>>

CallUpdateFilters ==
    /\ \E newFilters \in NewFilters :
          /\ hook' = updateFilters(hook, newFilters)
          /\ calls' = HandlerCall("updateFilters", newFilters)
    /\ UNCHANGED <<authVars, httpVars, serviceVars, routeVars, optimisticVars>>

CallUpdateSort ==
    /\ \E sort \in QuerySorts : hook' = updateSort(hook, sort[1], sort[2])
    /\ calls' = HandlerCall("updateSort", EmptyObj)
    /\ UNCHANGED <<authVars, httpVars, serviceVars, routeVars, optimisticVars>>

CallClearFilters ==
    /\ hook' = clearFilters(hook)
    /\ calls' = HandlerCall("clearFilters", EmptyObj)
    /\ UNCHANGED <<authVars, httpVars, serviceVars, routeVars, optimisticVars>>

\* the debounce of setSearchTerm has run its callback with a term
ApplySearchTerm ==
    /\ \E term \in SearchTerms : hook' = debouncedSearch(hook, term)
    /\ calls' = HandlerCall("search", EmptyObj)
    /\ UNCHANGED <<authVars, httpVars, serviceVars, routeVars, optimisticVars>>

-----------------------------------------------------------------------------
(* The feature services: client-side validation, requests, cache clearing *)

\* a JavaScript string is the sequence of its characters; a property an
\* object lacks reads as Undefined
Undefined == <<"undefined">>

Has(obj, f) == obj[f] # Undefined

\* !value is true of undefined and of the empty string
Falsy(obj, f) == obj[f] = Undefined \/ obj[f] = <<>>

\* String.prototype.trim
RECURSIVE trimStart(_)
trimStart(s) == IF s # <<>> /\ Head(s) = " " THEN trimStart(Tail(s)) ELSE s

RECURSIVE trimEnd(_)
trimEnd(s) == IF s # <<>> /\ s[Len(s)] = " " THEN trimEnd(SubSeq(s, 1, Len(s) - 1)) ELSE s

trim(s) == trimEnd(trimStart(s))

\* the classes of the pattern /^[A-Z0-9._%+-]+@[A-Z0-9.-]+\.[A-Z]{2,}$/i,
\* over the characters the model's inputs are written with
Letters == {"a", "b", "c", "d", "e", "f", "g", "i", "j", "l", "n", "o", "p", "s", "v", "x",
            "A", "B", "D", "F", "P"}
Digits == {"1", "2", "3", "4", "5", "6", "7", "8", "9", "0"}
emailLocalChars == Letters \cup Digits \cup {".", "_", "%", "+", "-"}
emailDomainChars == Letters \cup Digits \cup {".", "-"}

\* helpers.js isValidEmail: emailRegex.test(email)
isValidEmail(email) ==
    \E i \in 1..Len(email), j \in 1..Len(email) :
        /\ 1 < i /\ email[i] = "@"
        /\ i + 1 < j /\ email[j] = "."
        /\ Len(email) - j >= 2
        /\ \A k \in 1..(i - 1) : email[k] \in emailLocalChars
        /\ \A k \in (i + 1)..(j - 1) : email[k] \in emailDomainChars
        /\ \A k \in (j + 1)..Len(email) : email[k] \in Letters

passwordMinLength == 8
nameMinLength == 2

\* helpers.js isValidPassword: password && password.length >= 8
isValidPassword(password) == password # <<>> /\ Len(password) >= passwordMinLength

\* String.prototype.toLowerCase
toLowerCase(s) ==
    [k \in 1..Len(s) |->
        CASE s[k] = "A" -> "a" [] s[k] = "B" -> "b" [] s[k] = "D" -> "d"
          [] s[k] = "F" -> "f" [] s[k] = "P" -> "p" [] OTHER -> s[k]]

\* name.split('.').pop(): the part after the last dot, the whole name without one
RECURSIVE lastPart(_)
lastPart(name) ==
    IF \E k \in 1..Len(name) : name[k] = "."
    THEN lastPart(Tail(name))
    ELSE name

fileExtension(name) == <<".">> \o toLowerCase(lastPart(name))

maxSize == 10 * 1024 * 1024
allowedTypes == {"application/pdf", "application/msword",
                 "application/vnd.openxmlformats-officedocument.wordprocessingml.document",
                 "application/vnd.ms-excel",
                 "application/vnd.openxmlformats-officedocument.spreadsheetml.sheet",
                 "text/csv", "image/jpeg", "image/png", "image/gif"}
allowedExtensions == {<<".", "p", "d", "f">>, <<".", "d", "o", "c">>, <<".", "d", "o", "c", "x">>,
                      <<".", "x", "l", "s">>, <<".", "x", "l", "s", "x">>, <<".", "c", "s", "v">>,
                      <<".", "j", "p", "g">>, <<".", "j", "p", "e", "g">>, <<".", "p", "n", "g">>,
                      <<".", "g", "i", "f">>}

NullFile == [null |-> TRUE, size |-> 0, type |-> "", name |-> <<>>]

\* helpers.js validateFile: the list of messages; valid iff it is empty
validateFile(file) ==
    IF file.null
    THEN {"No file selected"}
    ELSE (IF file.size > maxSize THEN {"File size must be less than 10 MB"} ELSE {})
         \cup (IF file.type \notin allowedTypes THEN {"File type not allowed"} ELSE {})
         \cup (IF fileExtension(file.name) \notin allowedExtensions
               THEN {"File extension not allowed"} ELSE {})

USER_ROLES == {<<"a", "d", "m", "i", "n">>, <<"e", "d", "i", "t", "o", "r">>, <<"u", "s", "e", "r">>}

\* the inputs the services are called with: values on both sides of every
\* check, and Undefined where a service treats a missing property specially
Emails == {<<>>, <<"a", "@", "b">>, <<"a", "@", "b", ".", "c", "d">>}
Passwords == {<<"p", "a", "s", "s", "1", "2", "3">>, <<"p", "a", "s", "s", "1", "2", "3", "4">>}
Names == {<<" ", "a">>, <<"a", "b">>}
Titles == {<<" ", "a", "b", " ">>, <<"a", "b", "c">>}
Bodies == {<<>>, <<"n", "i", "n", "e", " ", "l", "o", "n", "g">>,
           <<"t", "e", "n", " ", "l", "o", "n", "g", "e", "r">>}
Contents == {Undefined, <<"t", "e", "n", " ", "l", "o", "n", "g", "e", "r">>}
NewsCategories == {<<>>, <<"e">>}
Roles == {Undefined, <<"r", "o", "o", "t">>}
Files == {NullFile,
          [null |-> FALSE, size |-> maxSize, type |-> "application/pdf",
           name |-> <<"a", ".", "b", ".", "P", "D", "F">>],
          [null |-> FALSE, size |-> maxSize + 1, type |-> "application/pdf",
           name |-> <<"a", ".", "p", "d", "f">>],
          [null |-> FALSE, size |-> 1, type |-> "image/png",
           name |-> <<"a", ".", "e", "x", "e">>]}

\* the field checks of the services
emailFails(d) == Falsy(d, "email") \/ ~isValidEmail(d.email)
titleFails(d) == Falsy(d, "title") \/ Len(trim(d.title)) < 3
categoryFails(d) == Falsy(d, "category")
trimmedNameFails(d) == Falsy(d, "name") \/ Len(trim(d.name)) < nameMinLength

\* newsService: const articleContent = body || content
articleContent(d) == IF ~Falsy(d, "body") THEN d.body ELSE d.content

contentFails(d) == articleContent(d) \in {Undefined, <<>>} \/ Len(trim(articleContent(d))) < 10

\* the keys of `errors` when the validation of a service has run
Keys(f, fails) == IF fails THEN {f} ELSE {}

loginErrors(credentials) ==
    Keys("email", emailFails(credentials))
    \cup Keys("password", Falsy(credentials, "password"))

registerErrors(userData) ==
    Keys("name", Falsy(userData, "name") \/ Len(userData.name) < nameMinLength)
    \cup Keys("email", emailFails(userData))
    \cup Keys("password", Falsy(userData, "password") \/ ~isValidPassword(userData.password))
    \cup Keys("password_confirmation", \/ Falsy(userData, "password_confirmation")
                                       \/ userData.password # userData.password_confirmation)

createNewsErrors(newsData) ==
    Keys("title", titleFails(newsData))
    \cup Keys("body", contentFails(newsData))
    \cup Keys("category", categoryFails(newsData))

updateNewsErrors(newsData) ==
    Keys("title", Has(newsData, "title") /\ titleFails(newsData))
    \cup Keys("body", articleContent(newsData) # Undefined /\ contentFails(newsData))
    \cup Keys("category", Has(newsData, "category") /\ categoryFails(newsData))

\* role = USER_ROLES.USER when userData has none
createUserErrors(userData) ==
    Keys("name", trimmedNameFails(userData))
    \cup Keys("email", emailFails(userData))
    \cup Keys("password", Falsy(userData, "password") \/ Len(userData.password) < passwordMinLength)
    \cup Keys("role", Has(userData, "role") /\ userData.role \notin USER_ROLES)

metadataErrors(metadata) ==
    Keys("title", titleFails(metadata))
    \cup Keys("category", categoryFails(metadata))

updateDocumentErrors(metadata) ==
    Keys("title", Has(metadata, "title") /\ titleFails(metadata))
    \cup Keys("category", Has(metadata, "category") /\ categoryFails(metadata))

updateUserErrors(userData) ==
    Keys("name", Has(userData, "name") /\ trimmedNameFails(userData))
    \cup Keys("email", Has(userData, "email") /\ emailFails(userData))
    \cup Keys("role", Has(userData, "role") /\ userData.role \notin USER_ROLES)
    \cup Keys("password", /\ ~Falsy(userData, "password")
                          /\ Len(userData.password) < passwordMinLength)

\* only the file is reported when the file is not valid
uploadDocumentErrors(file, metadata) ==
    IF validateFile(file) # {}
    THEN {"file"}
    ELSE metadataErrors(metadata)

\* the cached reads of the services: getNewsList, getNewsById, getDocuments, getUsers
ServiceRequests == {<<"/news", "{}">>, <<"/news/1", "{}">>, <<"/documents", "{}">>,
                    <<"/admin/users", "{}">>}

ServiceCacheKeys == {cacheKey(r[1], r[2]) : r \in ServiceRequests}

\* the cacheDuration each read passes to api.getWithCache
readCacheDuration(url) ==
    CASE url = "/news" -> <<2 * 60 * 1000>>
      [] url = "/news/1" -> <<5 * 60 * 1000>>
      [] url = "/documents" -> <<3 * 60 * 1000>>
      [] url = "/admin/users" -> <<2 * 60 * 1000>>

\* the characters of the URLs, of the parameters and of the patterns
chars(s) ==
    CASE s = "/news" -> <<"/", "n", "e", "w", "s">>
      [] s = "/news/1" -> <<"/", "n", "e", "w", "s", "/", "1">>
      [] s = "/documents" -> <<"/", "d", "o", "c", "u", "m", "e", "n", "t", "s">>
      [] s = "/admin/users" -> <<"/", "a", "d", "m", "i", "n", "/", "u", "s", "e", "r", "s">>
      [] s = "{}" -> <<"{", "}">>
      [] s = "news" -> <<"n", "e", "w", "s">>
      [] s = "documents" -> <<"d", "o", "c", "u", "m", "e", "n", "t", "s">>
      [] s = "admin/users" -> <<"a", "d", "m", "i", "n", "/", "u", "s", "e", "r", "s">>
      [] s = "api_cache_" -> <<"a", "p", "i", "_", "c", "a", "c", "h", "e", "_">>

\* the localStorage key: `api_cache_${url}_${JSON.stringify(params)}`
keyText(key) == chars("api_cache_") \o chars(key[2]) \o <<"_">> \o chars(key[3])

\* String.prototype.startsWith and String.prototype.includes
startsWith(s, p) == Len(p) <= Len(s) /\ SubSeq(s, 1, Len(p)) = p
includes(s, p) == \E k \in 0..(Len(s) - Len(p)) : SubSeq(s, k + 1, k + Len(p)) = p

\* api.clearCache(pattern)
clearCache(c, pattern) ==
    [k \in DOMAIN c |->
        IF startsWith(keyText(k), chars("api_cache_")) /\ includes(keyText(k), chars(pattern))
        THEN NoEntry
        ELSE c[k]]

\* the pattern a mutation clears the cache with once its request has succeeded
Mutations == {"createNews", "updateNews", "deleteNews", "publishNews", "unpublishNews",
              "uploadDocument", "updateDocument", "deleteDocument",
              "createUser", "updateUser", "deleteUser"}

clearPattern(fn) ==
    CASE fn \in {"createNews", "updateNews", "deleteNews", "publishNews", "unpublishNews"} -> "news"
      [] fn \in {"uploadDocument", "updateDocument", "deleteDocument"} -> "documents"
      [] fn \in {"createUser", "updateUser", "deleteUser"} -> "admin/users"

\* the URLs of the resource a pattern stands for
resourceUrls(pattern) ==
    CASE pattern = "news" -> {"/news", "/news/1"}
      [] pattern = "documents" -> {"/documents"}
      [] pattern = "admin/users" -> {"/admin/users"}

\* the response body of a read: Current, or Outdated when a mutation of the
\* resource has succeeded since the request was sent
Current == 0
Outdated == 1

NoRead == [pc |-> "idle", key |-> cacheKey("/news", "{}"), fromCache |-> FALSE, requests |-> 0,
           body |-> Current]

NoService == [fn |-> "none", input |-> <<>>, file |-> NullFile,
              pc |-> "idle",      \* "rejected", "flight", "done", "failed"
              status |-> 0,       \* error.response.status of the rejection
              errors |-> {},      \* the keys of error.response.data.errors
              requests |-> 0,     \* HTTP requests the call has sent
              cleared |-> FALSE,  \* the call has run api.clearCache
              read |-> NoRead]    \* a cached read, which may overlap the call

\* the results of a call that has returned are seen in the step that returns
ForgetService(s) ==
    [s EXCEPT !.fn = IF s.pc = "flight" THEN @ ELSE "none",
              !.input = <<>>, !.file = NullFile,
              !.pc = IF @ = "flight" THEN @ ELSE "idle",
              !.status = 0, !.errors = {}, !.requests = 0, !.cleared = FALSE,
              !.read = IF @.pc = "flight" THEN [@ EXCEPT !.requests = 0] ELSE NoRead]

\* a service validates its input, throws the 422 object or sends its request
CallService(fn, input, file, errors) ==
    [ForgetService(svc) EXCEPT
        !.fn = fn, !.input = input, !.file = file,
        !.pc = IF errors # {} THEN "rejected" ELSE "flight",
        !.status = IF errors # {} THEN UNPROCESSABLE_ENTITY ELSE 0,
        !.errors = errors,
        !.requests = IF errors # {} THEN 0 ELSE 1]

AuthServiceLogin ==
    /\ svc.pc # "flight"
    /\ \E credentials \in [email : Emails, password : {Undefined} \cup Passwords] :
          svc' = CallService("login", credentials, NullFile, loginErrors(credentials))
    /\ UNCHANGED <<authVars, rq, cache, now, pageVars, routeVars, optimisticVars>>

AuthServiceRegister ==
    /\ svc.pc # "flight"
    /\ \E userData \in [name : {Undefined} \cup Names, email : Emails \ {<<>>},
                     password : Passwords, password_confirmation : Passwords] :
          svc' = CallService("register", userData, NullFile, registerErrors(userData))
    /\ UNCHANGED <<authVars, rq, cache, now, pageVars, routeVars, optimisticVars>>

CreateNews ==
    /\ svc.pc # "flight"
    /\ \E newsData \in [title : Titles, body : Bodies, content : Contents,
                     category : NewsCategories] :
          svc' = CallService("createNews", newsData, NullFile, createNewsErrors(newsData))
    /\ UNCHANGED <<authVars, rq, cache, now, pageVars, routeVars, optimisticVars>>

UpdateNews ==
    /\ svc.pc # "flight"
    /\ \E newsData \in [title : {Undefined, <<" ", "a", "b", " ">>}, body : Bodies,
                     content : Contents, category : {Undefined, <<>>}] :
          svc' = CallService("updateNews", newsData, NullFile, updateNewsErrors(newsData))
    /\ UNCHANGED <<authVars, rq, cache, now, pageVars, routeVars, optimisticVars>>

CreateUser ==
    /\ svc.pc # "flight"
    /\ \E userData \in [name : Names, email : Emails \ {<<>>}, password : Passwords,
                     role : Roles] :
          svc' = CallService("createUser", userData, NullFile, createUserErrors(userData))
    /\ UNCHANGED <<authVars, rq, cache, now, pageVars, routeVars, optimisticVars>>

UploadDocument ==
    /\ svc.pc # "flight"
    /\ \E file \in Files, metadata \in [title : Titles, category : NewsCategories] :
          svc' = CallService("uploadDocument", metadata, file, uploadDocumentErrors(file, metadata))
    /\ UNCHANGED <<authVars, rq, cache, now, pageVars, routeVars, optimisticVars>>

UpdateDocument ==
    /\ svc.pc # "flight"
    /\ \E metadata \in [title : {Undefined} \cup Titles, category : {Undefined, <<>>}] :
          svc' = CallService("updateDocument", metadata, NullFile, updateDocumentErrors(metadata))
    /\ UNCHANGED <<authVars, rq, cache, now, pageVars, routeVars, optimisticVars>>

UpdateUser ==
    /\ svc.pc # "flight"
    /\ \E userData \in [name : {Undefined, <<" ", "a">>}, email : {Undefined, <<"a", "@", "b">>},
                     password : {<<>>} \cup Passwords, role : Roles] :
          svc' = CallService("updateUser", userData, NullFile, updateUserErrors(userData))
    /\ UNCHANGED <<authVars, rq, cache, now, pageVars, routeVars, optimisticVars>>

\* deleteNews, publishNews, unpublishNews, deleteDocument, deleteUser: no validation
MutateById ==
    /\ svc.pc # "flight"
    /\ \E fn \in {"deleteNews", "publishNews", "unpublishNews", "deleteDocument", "deleteUser"} :
          svc' = CallService(fn, <<>>, NullFile, {})
    /\ UNCHANGED <<authVars, rq, cache, now, pageVars, routeVars, optimisticVars>>

\* the request of the call answers; a mutation that succeeded clears the cache
ServiceResponse ==
    /\ svc.pc = "flight"
    /\ \E ok \in BOOLEAN :
          LET clears == ok /\ svc.fn \in Mutations
              overtaken == /\ clears
                           /\ svc.read.pc = "flight"
                           /\ svc.read.key[2] \in resourceUrls(clearPattern(svc.fn))
          IN /\ svc' = [ForgetService(svc) EXCEPT
                           !.fn = svc.fn,
                           !.pc = IF ok THEN "done" ELSE "failed",
                           !.cleared = clears,
                           !.read.body = IF overtaken THEN Outdated ELSE @]
             /\ cache' = IF clears THEN clearCache(cache, clearPattern(svc.fn)) ELSE cache
    /\ UNCHANGED <<authVars, rq, now, pageVars, routeVars, optimisticVars>>

\* getNewsList, getNewsById, getDocuments, getUsers: api.getWithCache
ServiceRead ==
    /\ svc.read.pc # "flight"
    /\ \E r \in ServiceRequests :
          LET key == cacheKey(r[1], r[2])
              hit == cacheFresh(cache[key], now, effectiveDuration(readCacheDuration(r[1])))
          IN svc' = [ForgetService(svc) EXCEPT
                        !.read = [pc |-> IF hit THEN "done" ELSE "flight", key |-> key,
                                  fromCache |-> hit, requests |-> IF hit THEN 0 ELSE 1,
                                  body |-> IF hit THEN cache[key].data ELSE Current]]
    /\ UNCHANGED <<authVars, rq, cache, now, pageVars, routeVars, optimisticVars>>

\* the request of the read answers; a 200 response is stored
ReadResponse ==
    /\ svc.read.pc = "flight"
    /\ \E ok \in BOOLEAN :
          /\ svc' = [ForgetService(svc) EXCEPT
                        !.read = [svc.read EXCEPT !.pc = IF ok THEN "done" ELSE "failed",
                                                  !.requests = 0]]
          /\ cache' = IF ok /\ shouldStore(TRUE, OK)
                      THEN [cache EXCEPT ![svc.read.key] =
                               [present |-> TRUE, data |-> svc.read.body, timestamp |-> now]]
                      ELSE cache
    /\ UNCHANGED <<authVars, rq, now, pageVars, routeVars, optimisticVars>>

-----------------------------------------------------------------------------
(* ProtectedRoute and the routes of AppContent *)

\* the accounts of the server and the role of their user objects; the user
\* object of account 4 has no role
Accounts == 1..4

accountRole(u) ==
    CASE u = 1 -> "admin"
      [] u = 2 -> "editor"
      [] u = 3 -> "user"
      [] OTHER -> ""

\* AuthContext: isAuthenticated = !!user
isAuthenticated(u) == u # NoUser

\* a role check that only asks for a user
hasRoleAnyUser(u, role) == u # NoUser

\* AuthContext hasRole(role), role a string
hasRole(u, role) ==
    IF u = NoUser \/ accountRole(u) = "" THEN FALSE ELSE accountRole(u) = role

\* AuthContext hasPermission: the table of the callback
rolePermissions(role) ==
    CASE role = "admin" -> {"manage_users", "manage_roles", "create_news", "edit_news",
                            "delete_news", "upload_documents", "delete_documents",
                            "view_analytics", "manage_system"}
      [] role = "editor" -> {"create_news", "edit_news", "delete_news",
                             "upload_documents", "delete_documents"}
      [] role = "user" -> {"view_news", "download_documents", "view_dashboard"}
      [] OTHER -> {}

\* AuthContext hasPermission(permission), permission a string
hasPermission(u, permission) ==
    IF u = NoUser \/ accountRole(u) = "" THEN FALSE
    ELSE IF accountRole(u) = "admin" THEN TRUE
    ELSE permission \in rolePermissions(accountRole(u))

\* the props of a ProtectedRoute element, with their defaults
DefaultProps == [requiredRoles |-> {}, requiredPermissions |-> {},
                 fallbackUrl |-> "/login", showAccessDenied |-> TRUE]

RouteProps == [requiredRoles : SUBSET {"admin", "editor"},
               requiredPermissions : SUBSET {"manage_users", "create_news", "view_news"},
               fallbackUrl : {"/login", "/welcome"},
               showAccessDenied : BOOLEAN]

Rendered(kind, to) == [kind |-> kind, to |-> to]

\* what ProtectedRoute returns
ProtectedRoute(ld, u, props) ==
    IF ld THEN Rendered("LoadingScreen", "")
    ELSE IF ~isAuthenticated(u) THEN Rendered("Navigate", props.fallbackUrl)
    ELSE IF /\ props.requiredRoles # {}
            /\ ~\E role \in props.requiredRoles : hasRole(u, role)
         THEN IF props.showAccessDenied
              THEN Rendered("AccessDeniedScreen", "")
              ELSE Rendered("Navigate", "/dashboard")
    ELSE IF /\ props.requiredPermissions # {}
            /\ ~\E permission \in props.requiredPermissions : hasPermission(u, permission)
         THEN IF props.showAccessDenied
              THEN Rendered("AccessDeniedScreen", "")
              ELSE Rendered("Navigate", "/dashboard")
    ELSE Rendered("children", "")

\* the admin routes of AppContent and their pages
AdminPages == {<<"admin", "Admin">>, <<"admin/users", "UserManagement">>,
               <<"admin/analytics", "Analytics">>}

AdminProps == [DefaultProps EXCEPT !.requiredRoles = {"admin"}]

NoRoute == [path |-> "none", props |-> DefaultProps, render |-> Rendered("none", ""),
            page |-> "none"]

\* <ProtectedRoute {...props}>{children}</ProtectedRoute>
StandaloneRoute(ld, u, props) ==
    [path |-> "element", props |-> props, render |-> ProtectedRoute(ld, u, props),
     page |-> "none"]

\* path "/" renders <ProtectedRoute><AppLayout /></ProtectedRoute>, whose
\* outlet renders <ProtectedRoute requiredRoles={['admin']}>page</ProtectedRoute>
AdminRoute(ld, u, p) ==
    LET outer == ProtectedRoute(ld, u, DefaultProps)
        inner == ProtectedRoute(ld, u, AdminProps)
    IN [path |-> p[1],
        props |-> IF outer.kind = "children" THEN AdminProps ELSE DefaultProps,
        render |-> IF outer.kind = "children" THEN inner ELSE outer,
        page |-> IF outer.kind = "children" /\ inner.kind = "children" THEN p[2] ELSE "none"]

\* React renders the element again when the value of the auth context changes
Rerender(r, ld, u) ==
    IF r.path = "none" THEN r
    ELSE IF r.path = "element" THEN StandaloneRoute(ld, u, r.props)
    ELSE AdminRoute(ld, u, CHOOSE p \in AdminPages : p[1] = r.path)

RenderProtectedRoute ==
    /\ \E props \in RouteProps : route' = StandaloneRoute(loading, user, props)
    /\ UNCHANGED <<authVars, httpVars, pageVars, serviceVars, optimisticVars>>

RenderAdminRoute ==
    /\ \E p \in AdminPages : route' = AdminRoute(loading, user, p)
    /\ UNCHANGED <<authVars, httpVars, pageVars, serviceVars, optimisticVars>>

\* the auth context changes: initializeAuth, login, logout settle or start
AuthChange ==
    /\ \E ld \in BOOLEAN, u \in {NoUser} \cup Accounts :
          /\ loading' = ld
          /\ user' = u
          /\ route' = Rerender(route, ld, u)
    /\ UNCHANGED <<lsToken, authHeader, refreshing, redirected, cbIsAuth, cbRefreshing,
                   timerArmed, timerElapsed, procs, httpVars, pageVars, serviceVars,
                   optimisticVars>>

-----------------------------------------------------------------------------
(* useOptimisticUpdate: data, loading and error of the hook, the ref         *)
(* previousDataRef, and the calls of mutate that have not settled.  A value  *)
(* of data is named by a string; "null" is null.                             *)

\* the calls of mutate that run at a time
MaxMutates == 2

OptimisticData == {"optimistic1", "optimistic2"}
ServerResults == {"result1", "result2"}

NoMutate == [phase |-> "none", before |-> Null, optimistic |-> Null]

NoOptimistic ==
    [data |-> Null, loading |-> FALSE, error |-> FALSE,
     previousDataRef |-> Null,
     rollbackOnError |-> TRUE,
     mutates |-> [i \in 1..MaxMutates |-> NoMutate],
     \* the call of mutate that settled in this step: how, with which result,
     \* and the data held immediately before it was called
     settled |-> "none", result |-> Null, before |-> Null]

ForgetMutate(o) == [o EXCEPT !.settled = "none", !.result = Null, !.before = Null]

\* mutate up to its await, lines 734-744, called from the current render
mutateStart(o, i, optimisticData) ==
    [o EXCEPT !.previousDataRef = o.data,
              !.data = optimisticData,
              !.loading = TRUE,
              !.error = FALSE,
              !.mutates[i] = [phase |-> "flight", before |-> o.data,
                              optimistic |-> optimisticData]]

\* mutate after apiFunction has resolved, lines 746-752 and 767-769
mutateResolved(o, i, result) ==
    [o EXCEPT !.data = result, !.loading = FALSE,
              !.mutates[i] = NoMutate,
              !.settled = "resolved", !.result = result, !.before = o.mutates[i].before]

\* mutate after apiFunction has rejected, lines 753-769
mutateRejected(o, i) ==
    [o EXCEPT !.error = TRUE,
              !.data = IF o.rollbackOnError THEN o.previousDataRef ELSE @,
              !.loading = FALSE,
              !.mutates[i] = NoMutate,
              !.settled = "rejected", !.before = o.mutates[i].before]

Mutate ==
    /\ \E i \in 1..MaxMutates, optimisticData \in OptimisticData :
          /\ opt.mutates[i] = NoMutate
          /\ \A j \in 1..(i - 1) : opt.mutates[j] # NoMutate
          /\ opt' = mutateStart(ForgetMutate(opt), i, optimisticData)
    /\ UNCHANGED <<authVars, httpVars, pageVars, serviceVars, routeVars>>

MutateResolve ==
    /\ \E i \in 1..MaxMutates, result \in ServerResults :
          /\ opt.mutates[i].phase = "flight"
          /\ opt' = mutateResolved(ForgetMutate(opt), i, result)
    /\ UNCHANGED <<authVars, httpVars, pageVars, serviceVars, routeVars>>

MutateReject ==
    /\ \E i \in 1..MaxMutates :
          /\ opt.mutates[i].phase = "flight"
          /\ opt' = mutateRejected(ForgetMutate(opt), i)
    /\ UNCHANGED <<authVars, httpVars, pageVars, serviceVars, routeVars>>

\* the component calls setData of the hook
SetData ==
    /\ \E d \in {Null} \cup ServerResults : opt' = [ForgetMutate(opt) EXCEPT !.data = d]
    /\ UNCHANGED <<authVars, httpVars, pageVars, serviceVars, routeVars>>

-----------------------------------------------------------------------------
(* Initial values of the parts a specification leaves alone *)

HttpInit ==
    /\ rq = NoCall
    /\ cache = [k \in CacheKeys |-> NoEntry]
    /\ now = 0

PageInit ==
    /\ hook = HookInit0
    /\ calls = NoCalls

ServiceInit == svc = NoService

RouteInit == route = NoRoute

OptimisticInit == opt = NoOptimistic

InitAuth == AuthInit /\ HttpInit /\ PageInit /\ ServiceInit /\ RouteInit /\ OptimisticInit

SpecAuth == InitAuth /\ [][NextAuth]_vars

\* the synchronous part of initializeAuth runs, and the requests it awaits are
\* answered (the client gives up after API_CONFIG.timeout)
SpecAuthFair ==
    /\ SpecAuth
    /\ WF_vars(InitializeAuth)
    /\ WF_vars(InitResponse)
    /\ WF_vars(LogoutResponse)

\* a session as SpecAuth leaves it: a user logged in and rendered
SessionInit ==
    /\ lsToken = MaxToken
    /\ authHeader = MaxToken
    /\ user = MaxUser
    /\ cbIsAuth = TRUE
    /\ timerArmed = TRUE
    /\ loading = FALSE
    /\ refreshing = FALSE
    /\ redirected = FALSE
    /\ cbRefreshing = FALSE
    /\ timerElapsed = 0
    /\ procs = [o \in Owners |-> Idle]

InitHttp == SessionInit /\ HttpInit /\ PageInit /\ ServiceInit /\ RouteInit /\ OptimisticInit

NextHttp ==
    \/ GetWithCache
    \/ PostOptimistic
    \/ UploadFile
    \/ HttpResponse
    \/ RetryRequest
    \/ HttpTick

SpecHttp == InitHttp /\ [][NextHttp]_vars

InitPage == SessionInit /\ HttpInit /\ PageInit /\ ServiceInit /\ RouteInit /\ OptimisticInit

NextHook ==
    \/ PageNavigation
    \/ SetSearchTerm
    \/ SearchTick
    \/ DebouncedSearch
    \/ UpdateFilters
    \/ UpdateSort
    \/ ClearFilters
    \/ Refetch
    \/ HandleDeleteNews
    \/ CancelDelete
    \/ ConfirmDelete
    \/ DeleteSettle
    \/ ClearCache
    \/ CacheExpire
    \/ FetchEffect
    \/ FetchSettle
    \/ FetchRetry

SpecPage == InitPage /\ [][NextHook]_vars

NextQuery ==
    \/ CallSetPage
    \/ CallUpdateFilters
    \/ CallUpdateSort
    \/ CallClearFilters
    \/ ApplySearchTerm

SpecQuery == InitPage /\ [][NextQuery]_vars

\* the hook is mounted with rollbackOnError left at true or set to false
InitOptimistic ==
    /\ SessionInit /\ HttpInit /\ PageInit /\ ServiceInit /\ RouteInit
    /\ \E b \in BOOLEAN : opt = [NoOptimistic EXCEPT !.rollbackOnError = b]

NextOptimistic ==
    \/ Mutate
    \/ MutateResolve
    \/ MutateReject
    \/ SetData

SpecOptimistic == InitOptimistic /\ [][NextOptimistic]_vars

ServiceCacheInit ==
    /\ rq = NoCall
    /\ cache = [k \in ServiceCacheKeys |-> NoEntry]
    /\ now = 0

InitService == SessionInit /\ ServiceCacheInit /\ PageInit /\ ServiceInit /\ RouteInit /\ OptimisticInit

NextService ==
    \/ AuthServiceLogin
    \/ AuthServiceRegister
    \/ CreateNews
    \/ UpdateNews
    \/ CreateUser
    \/ UploadDocument
    \/ UpdateDocument
    \/ UpdateUser
    \/ MutateById
    \/ ServiceResponse
    \/ ServiceRead
    \/ ReadResponse

SpecService == InitService /\ [][NextService]_vars

\* the application mounts: loading is true, no user yet
InitRoute ==
    /\ lsToken \in {NoToken, MaxToken}
    /\ authHeader = NoToken
    /\ user = NoUser
    /\ loading = TRUE
    /\ refreshing = FALSE
    /\ redirected = FALSE
    /\ cbIsAuth = FALSE
    /\ cbRefreshing = FALSE
    /\ timerArmed = FALSE
    /\ timerElapsed = 0
    /\ procs = [o \in Owners |-> Idle]
    /\ HttpInit /\ PageInit /\ ServiceInit /\ RouteInit /\ OptimisticInit

NextRoute ==
    \/ RenderProtectedRoute
    \/ RenderAdminRoute
    \/ AuthChange

SpecRoute == InitRoute /\ [][NextRoute]_vars

-----------------------------------------------------------------------------
(* Properties of the authentication context, checked under SpecAuth *)

\* initializeAuth has run its synchronous part
InitDone == procs["auth"].pc # "start"

\* the step just taken sent the request of owner o in state pc
Sends(o, pc) == procs[o].pc # pc /\ procs'[o].pc = pc

\* C1: a request that receives a 401 while the user is authenticated has had
\* a silent token refresh attempted for it by the time it settles.
C1_RefreshOn401 ==
    procs["api"].got401 => procs["api"].refreshTried

\* C6: once initializeAuth has run, the stored token and the default
\* Authorization header agree, and a request sent while a token is stored
\* carries exactly that token.
C6_TokenHeaderAgree ==
    InitDone =>
        /\ authHeader = lsToken
        /\ \A o \in Owners : procs[o].sentTok # NoToken => procs[o].bearer = procs[o].sentTok

C6_Witness ==
    /\ user # NoUser
    /\ lsToken = MaxToken
    /\ authHeader = lsToken
    /\ procs["api"].sentTok = lsToken
    /\ procs["api"].bearer = lsToken
    /\ procs["timer"].pc = "refresh_wait"

\* C7: the interval callback sends a refresh request only after a
\* full 15 minutes of the interval, with a token stored and a user
\* authenticated; and once the render of an unauthenticated state is
\* committed no interval is armed.
C7_PeriodicRefresh ==
    /\ [](cbIsAuth = (user # NoUser) => timerArmed = (user # NoUser))
    /\ [][Sends("timer", "refresh_wait") =>
             /\ timerElapsed = RefreshIntervalMs
             /\ lsToken # NoToken
             /\ user # NoUser]_vars

C7_Witness ==
    /\ procs["timer"].pc = "refresh_wait"
    /\ timerArmed
    /\ timerElapsed = 0
    /\ user # NoUser
    /\ lsToken # NoToken

\* C8: when login or register returns success, the token of the response is
\* the stored token and the default Authorization header, user is the user
\* of the response and loading is false.
C8_LoginEstablishesSession ==
    procs["auth"].res \in {"login_ok", "register_ok"} =>
        /\ lsToken = procs["auth"].data.token
        /\ authHeader = procs["auth"].data.token
        /\ user = procs["auth"].data.user
        /\ lsToken # NoToken
        /\ user # NoUser
        /\ loading = FALSE

C8_Witness ==
    /\ procs["auth"].res = "login_ok"
    /\ procs["auth"].data = [token |-> MaxToken, user |-> MaxUser]
    /\ lsToken = MaxToken
    /\ authHeader = MaxToken
    /\ user = MaxUser
    /\ ~loading

\* C9: when logout returns, no token is stored, the default Authorization
\* header is removed, user is null and loading is false; and POST
\* /auth/logout is sent only when a token is stored at that moment.
C9_LogoutCleansUp ==
    /\ [](procs["auth"].res = "logout_done" =>
             /\ lsToken = NoToken
             /\ authHeader = NoToken
             /\ user = NoUser
             /\ loading = FALSE)
    /\ [][\A o \in Owners : Sends(o, "logout_wait") => lsToken # NoToken]_vars

C9_Witness ==
    /\ procs["auth"].res = "logout_done"
    /\ redirected
    /\ lsToken = NoToken
    /\ authHeader = NoToken
    /\ user = NoUser
    /\ ~loading

-----------------------------------------------------------------------------
(* Claims about the HTTP client wrapper, under SpecHttp *)

\* a method of the wrapper is called in this step
Called == rq.pc \in {"idle", "done", "failed"} /\ rq'.pc \in {"flight", "done"}

\* C2: requestWithRetry re-sends a failed request only when the failure is a
\* server error (status >= 500) or no response was received, never when it is
\* a timeout; a request that fails with 401, 403, 404 or 422 is sent to the
\* transport exactly once.
C2_RetryOnlyServerErrors ==
    /\ rq.pc = "backoff" => rq.fail \in {"e500", "network"}
    /\ rq.fail \in {"e401", "e403", "e404", "e422"} => rq.pc = "failed" /\ rq.sent = 1

\* C3: a POST sent through api.postOptimistic or api.uploadFile reaches the
\* transport at most once per call, whatever the failure.
C3_PostSentOnce ==
    rq.fn \in {"postOptimistic", "uploadFile"} => rq.sent <= 1 /\ rq.pc # "backoff"

\* C4: one call makes at most 1 + retryAttempts = 4 transport attempts; the
\* waits before the retries are 1000, 2000 and 4000 ms in that order; and a
\* failure of the last attempt is thrown to the caller, not retried.
C4_BoundedBackoff ==
    /\ rq.sent <= 1 + retryAttempts
    /\ rq.sent <= 4
    /\ \E n \in 0..3 : rq.delays = SubSeq(<<1000, 2000, 4000>>, 1, n)
    /\ rq.pc = "flight" => rq.sent = Len(rq.delays) + 1
    /\ rq.pc = "backoff" => rq.sent = Len(rq.delays) /\ rq.sent <= retryAttempts
    /\ rq.pc = "failed" => /\ rq.sent = Len(rq.delays) + 1
                           /\ rq.err = handleApiError(AxiosError(rq.fail))

C4_Witness ==
    /\ rq.pc = "failed"
    /\ rq.sent = 4
    /\ rq.delays = <<1000, 2000, 4000>>
    /\ rq.fail = "e500"

\* C5: getWithCache with caching enabled and a cacheDuration answers from the
\* cache, without a request, if and only if the entry under the same url and
\* params is younger than cacheDuration, and otherwise sends the request; a
\* cache entry changes only when a response with status 200 is stored, with
\* the current time.
C5_CacheIffFresh ==
    /\ [][ Called /\ rq'.fn = "getWithCache" /\ rq'.useCache /\ rq'.cacheDuration # <<>> =>
             LET entry == cache[rq'.key]
                 young == entry.present /\ now - entry.timestamp < rq'.cacheDuration[1]
             IN /\ young => /\ rq'.pc = "done" /\ rq'.fromCache /\ rq'.sent = 0
                            /\ rq'.data = entry.data
                /\ ~young => rq'.pc = "flight" /\ ~rq'.fromCache /\ rq'.sent = 1 ]_vars
    /\ [][ cache' # cache =>
             /\ rq.fn = "getWithCache" /\ rq.useCache
             /\ rq'.pc = "done" /\ rq'.status = OK
             /\ cache' = [cache EXCEPT ![rq.key] =
                             [present |-> TRUE, data |-> rq'.data, timestamp |-> now]] ]_vars

-----------------------------------------------------------------------------
(* Claims about the data hooks, under SpecPage *)

\* C10: every request issued by usePaginatedApi carries the hook's state: the
\* page, per_page, search, sort_by, sort_order and filters the service sends
\* equal the hook's page, pageSize, searchTerm, sortBy, sortOrder and filters.
C10_RequestCarriesHookState ==
    calls.made =>
        /\ calls.sent.page = hook.page
        /\ calls.sent.per_page = pageSize
        /\ calls.sent.search = hook.searchTerm
        /\ calls.sent.sort_by = hook.sortBy
        /\ calls.sent.sort_order = hook.sortOrder
        /\ "category" \in hook.filters.keys => calls.sent.category = hook.filters.category

C12_SearchDebounced ==
    /\ [][hook.debounce.timers # {} /\ hook' # hook /\ hook'.debounce.timers = {} =>
             /\ hook'.searchTerm = hook.debounce.last
             /\ hook'.page = 1
             /\ hook.debounce.since = searchDebounceMs
             /\ hook.debounce.since = 300
             /\ hook'.debounce.timers = {}]_vars
    /\ [][hook'.debounce.timers # {} =>
             /\ hook'.searchTerm = hook.searchTerm
             /\ hook'.page = hook.page
             /\ ~hook'.effects
             /\ ~calls'.made]_vars
    /\ [](Cardinality(hook.debounce.timers) <= 1)

\* the last term of a burst of several calls has just been applied
C12_Witness ==
    /\ calls.burst = 2
    /\ hook.debounce.timers = {}
    /\ hook.searchTerm = "budget"
    /\ hook.effects

-----------------------------------------------------------------------------
(* Claims about the feature services, under SpecService *)

\* every field of the input that fails its check in the service
failingFields(s) ==
    CASE s.fn = "login" -> loginErrors(s.input)
      [] s.fn = "register" -> registerErrors(s.input)
      [] s.fn = "createNews" -> createNewsErrors(s.input)
      [] s.fn = "updateNews" -> updateNewsErrors(s.input)
      [] s.fn = "createUser" -> createUserErrors(s.input)
      [] s.fn = "updateUser" -> updateUserErrors(s.input)
      [] s.fn = "updateDocument" -> updateDocumentErrors(s.input)
      [] s.fn = "uploadDocument" ->
            Keys("file", validateFile(s.file) # {}) \cup metadataErrors(s.input)
      [] OTHER -> {}

\* C13: a call of login, register, createNews, updateNews, createUser or
\* uploadDocument whose client-side validation fails rejects with status 422
\* and an errors map that names every failing field, sends no HTTP request and
\* leaves the API cache unchanged.
C13_ValidationRejects ==
    /\ [](svc.pc = "rejected" =>
            /\ svc.status = 422
            /\ svc.errors = failingFields(svc)
            /\ svc.requests = 0)
    /\ [][svc'.pc = "rejected" => cache' = cache]_vars

-----------------------------------------------------------------------------
(* Claims about ProtectedRoute, under SpecRoute *)

\* C14: ProtectedRoute renders its children only when loading is false, the
\* user is authenticated, holds one of requiredRoles when that list is not
\* empty and one of requiredPermissions when that list is not empty (an admin
\* holds every permission); an unauthenticated visitor is, once loading is
\* false, redirected to fallbackUrl; an admin page is rendered only for a user
\* whose role is admin.
C14_ProtectedRouteGuards ==
    /\ route.render.kind = "children" =>
          /\ ~loading
          /\ user # NoUser
          /\ route.props.requiredRoles # {} => accountRole(user) \in route.props.requiredRoles
          /\ route.props.requiredPermissions # {} =>
                \/ accountRole(user) = "admin"
                \/ route.props.requiredPermissions \cap rolePermissions(accountRole(user)) # {}
    /\ route.path # "none" /\ ~loading /\ user = NoUser =>
          route.render = Rendered("Navigate", route.props.fallbackUrl)
    /\ route.page # "none" =>
          /\ route.page \in {p[2] : p \in AdminPages}
          /\ user # NoUser /\ accountRole(user) = "admin" /\ ~loading

C14_Witness ==
    /\ route.page = "UserManagement"
    /\ route.render.kind = "children"
    /\ accountRole(user) = "admin"

-----------------------------------------------------------------------------
(* Further claims about the authentication context, under SpecAuth *)

\* the refresh requests in flight
RefreshesInFlight == {o \in Owners : procs[o].pc = "refresh_wait"}

\* the step just taken is a run of the interval callback while the refresh of
\* an earlier run is still awaited
CallbackDuringRefresh ==
    /\ timerArmed /\ timerElapsed = RefreshIntervalMs /\ timerElapsed' = 0
    /\ cbIsAuth' = cbIsAuth /\ cbRefreshing' = cbRefreshing
    /\ lsToken # NoToken
    /\ procs["timer"].pc = "refresh_wait" /\ procs'["timer"].pc = "refresh_wait"

RefreshReturns(c) ==
    /\ procs[c].op = "refresh"
    /\ procs[c].pc \in {"refresh_wait", "logout_wait"}
    /\ procs'[c].pc = "idle"
    /\ procs'[c].res \in {"refresh_true", "refresh_false"}

\* C16: when the refreshToken call of a failed refresh request returns, it
\* returns false, no token is stored, the Authorization header is unset and
\* user is null; a call that returns true has had a successful response; and
\* after either return refreshing is false.
C16_RefreshFailureLogsOut ==
    /\ [][\A c \in {"timer", "icpt"} : RefreshReturns(c) =>
              /\ ~refreshing'
              /\ procs[c].pc = "logout_wait" => procs'[c].res = "refresh_false"
              /\ procs'[c].res = "refresh_false" =>
                    lsToken' = NoToken /\ authHeader' = NoToken /\ user' = NoUser
              /\ procs'[c].res = "refresh_true" =>
                    lsToken' = procs'[c].data.token /\ lsToken' # NoToken]_vars
    /\ [](\A c \in {"timer", "icpt"} :
            procs[c].op = "refresh" /\ procs[c].pc # "idle" => refreshing)

C16_Witness ==
    /\ procs["timer"].pc = "idle"
    /\ procs["timer"].res = "refresh_false"
    /\ lsToken = NoToken /\ user = NoUser /\ ~refreshing /\ ~loading
    /\ cbIsAuth

\* C17: when login returns success = false (validation failure, wrong
\* credentials, server or network error) user is null, no token is stored, no
\* default Authorization header is set and loading is false, whether or not a
\* user was authenticated before the call.
C17_FailedLoginIsClean ==
    procs["auth"].res = "login_fail" =>
        /\ user = NoUser
        /\ lsToken = NoToken
        /\ authHeader = NoToken
        /\ loading = FALSE
        /\ procs["auth"].pc = "idle"

\* a login the server refused, in a session that was authenticated: the
\* closures of the last render still see the user
C17_Witness ==
    /\ procs["auth"].res = "login_fail"
    /\ procs["auth"].err.type = "unknown_error"
    /\ cbIsAuth
    /\ user = NoUser /\ lsToken = NoToken /\ authHeader = NoToken /\ ~loading

\* initializeAuth is running
InitRunning == procs["auth"].op = "init" /\ procs["auth"].pc # "idle"

\* C18: initializeAuth terminates (unless the page is loaded anew first) with
\* loading false.  Without a stored token it sends no request and user stays
\* null; with one, user is the user of the response when getCurrentUser
\* succeeds, and after a 401, a server error or a network error the stored
\* token is removed and user is null.
C18_InitializeAuthTerminates ==
    /\ InitRunning ~> (procs["auth"].pc = "idle" \/ procs["auth"].pc = "start")
    /\ [](procs["auth"].res \in {"init_none", "init_ok", "init_fail"} => ~loading)
    /\ [](procs["auth"].res = "init_none" => user = NoUser /\ lsToken = NoToken)
    /\ [](procs["auth"].res = "init_ok" =>
            user = procs["auth"].data.user /\ user # NoUser)
    /\ [](procs["auth"].res = "init_fail" =>
            lsToken = NoToken /\ authHeader = NoToken /\ user = NoUser)
    /\ [](InitRunning => loading)
    /\ [][procs'["auth"].res = "init_none" =>
              /\ procs["auth"].pc = "start" /\ lsToken = NoToken
              /\ \A o \in Owners \ {"auth"} : procs'[o].pc = procs[o].pc]_vars
    /\ [][procs["auth"].pc = "start" /\ procs'["auth"].pc = "init_wait" =>
              lsToken # NoToken]_vars
    /\ [][procs["auth"].op = "init" /\ procs["auth"].pc \in {"init_wait", "logout_wait"}
              /\ procs'["auth"].pc = "idle" =>
              ~loading']_vars

C18_Witness ==
    /\ procs["auth"].res = "init_fail"
    /\ lsToken = NoToken /\ user = NoUser /\ ~loading
    /\ redirected

-----------------------------------------------------------------------------
(* Claims about cache invalidation, under SpecService *)

\* C19: when a mutation of news, documents or admin/users has succeeded no
\* API cache entry for a URL of that resource remains, and a read that is
\* answered from the cache afterwards never gets a response whose request
\* preceded the mutation: the next read of the resource sends a request.
C19_MutationInvalidatesCache ==
    /\ [][svc'.cleared =>
              \A k \in DOMAIN cache :
                  k[2] \in resourceUrls(clearPattern(svc'.fn)) => ~cache'[k].present]_vars
    /\ [](svc.read.fromCache => svc.read.body = Current /\ svc.read.requests = 0)

-----------------------------------------------------------------------------
(* Claims about the News page, under SpecPage *)

\* C20: when deleteNews has succeeded and confirmDelete has called refetch(),
\* the list is not answered from an entry cacheRef held before the deletion:
\* refetch calls apiFunction, so that the data comes from a later request.
C20_RefetchAfterDelete ==
    [][calls'.deleted => calls'.made /\ calls'.settled # "cached"]_vars

\* usePaginatedApi, line 573: hasNextPage as the hook returns it
hasNextPage(h) == h.page < h.totalPages

\* C21: after a successful page response of a list service, totalPages and
\* totalItems are the last_page and total of the server's body, hasNextPage
\* tells whether the server has a further page, and items is the array of
\* the records of the body.
C21_PaginationFromResponse ==
    calls.settled = "success" =>
        /\ hook.totalPages = calls.body.last_page
        /\ hook.totalItems = calls.body.total
        /\ hasNextPage(hook) <=> hook.page < calls.body.last_page
        /\ calls.items = recordsOf(calls.body)

-----------------------------------------------------------------------------
(* Claims about the query state of usePaginatedApi, under SpecQuery *)

\* C22: updateFilters, updateSort, clearFilters and an applied search term
\* each reset page to 1; updateFilters merges the new keys into the filters
\* and leaves searchTerm, sortBy and sortOrder as they were; updateSort
\* leaves filters and searchTerm as they were; clearFilters restores
\* searchTerm '', filters {}, sortBy null and sortOrder 'asc'.
C22_QueryHandlersFrame ==
    [][/\ calls'.op \in {"updateFilters", "updateSort", "clearFilters", "search"} =>
              hook'.page = 1
       /\ calls'.op = "updateFilters" =>
              /\ hook'.filters.keys = hook.filters.keys \cup calls'.input.keys
              /\ \A k \in hook'.filters.keys :
                     hook'.filters[k] = IF k \in calls'.input.keys THEN calls'.input[k]
                                                                  ELSE hook.filters[k]
              /\ hook'.searchTerm = hook.searchTerm
              /\ hook'.sortBy = hook.sortBy /\ hook'.sortOrder = hook.sortOrder
       /\ calls'.op = "updateSort" =>
              hook'.filters = hook.filters /\ hook'.searchTerm = hook.searchTerm
       /\ calls'.op = "clearFilters" =>
              /\ hook'.searchTerm = "" /\ hook'.filters.keys = {}
              /\ hook'.sortBy = Null /\ hook'.sortOrder = "asc"]_vars

C22_Witness ==
    /\ calls.op = "updateFilters" /\ calls.from = 2 /\ hook.page = 1
    /\ calls.input.keys = {"status"}
    /\ hook.filters.keys = {"category", "status"}
    /\ hook.filters.category = "economy" /\ hook.filters.status = "published"
    /\ hook.searchTerm = "budget" /\ hook.sortBy = "title"

-----------------------------------------------------------------------------
(* Claims about useOptimisticUpdate, under SpecOptimistic *)

\* C23: when the API call of a mutate fails and rollbackOnError is true, data
\* is again the value it had immediately before that mutate was called,
\* error is set and loading is false; when it succeeds data is the server
\* result; also when another mutate was started before this one settled.
C23_OptimisticSettles ==
    /\ opt.settled = "rejected" /\ opt.rollbackOnError =>
           opt.data = opt.before /\ opt.error /\ ~opt.loading
    /\ opt.settled = "resolved" => opt.data = opt.result /\ ~opt.loading

=============================================================================
